---- MODULE Spec2Model ----
(***************************************************************************)
(* Model of the MorganFingerprintTransformer of the notebook               *)
(* 01_machineLearning/part-2_ml-with-materials-data/                       *)
(* 1_ml-with-fingerprints.ipynb: the function compute_morgan_fingerprints  *)
(* and the class MorganFingerprintTransformer (__init__, fit, transform),  *)
(* with the attribute assignments and set_params calls the notebook makes  *)
(* on it.                                                                  *)
(***************************************************************************)
EXTENDS Integers, Sequences, FiniteSets, TLC

(***************************************************************************)
(* Bounds of the model.                                                    *)
(***************************************************************************)
\* largest fingerprint length (self.length) the model assigns
MaxLength == 2
\* largest fingerprint radius (self.radius) the model assigns
MaxRadius == 1
\* largest number of SMILES strings in one batch X
MaxBatch == 2
\* largest batch whose outcome the caller keeps after the call
MaxKept == 1

\* Python's None, where a string is expected
None == "None"

\* values the model gives to length and radius: also zero and one negative
\* value, since __init__ and attribute assignment accept any integer
LengthValues == (0 - 1) .. MaxLength
RadiusValues == (0 - 1) .. MaxRadius

(***************************************************************************)
(* SMILES strings.  A string is a sequence of one-character strings.       *)
(***************************************************************************)
\* atoms of the organic subset the model's molecules are made of
AtomSymbols == {"C", "O"}

\* the identifiers batches are drawn from: methane, methanol and a string
\* with an unclosed branch, which no SMILES parser accepts
Methane == <<"C">>
Methanol == <<"C", "O">>
Malformed == <<"C", "(">>
Identifiers == {Methane, Methanol, Malformed}

\* an element of a batch that is no string at all (a None among the strings)
NotAString == <<None>>

\* Chem.MolFromSmiles: the molecule (here a chain of heavy atoms joined by
\* single bonds), or None when the string does not parse; RDKit reports a
\* parse failure by returning None (NoMol here), not by raising
NoMol == [valid |-> FALSE, atoms |-> <<>>]

\* a parser that drops what it does not understand instead of giving up
MolFromSmilesLenient(smiles) ==
    [valid |-> TRUE,
     atoms |-> SelectSeq(smiles, LAMBDA c : c \in AtomSymbols)]

MolFromSmiles(smiles) ==
    IF \A k \in 1 .. Len(smiles) : smiles[k] \in AtomSymbols
    THEN [valid |-> TRUE, atoms |-> smiles]
    ELSE NoMol

(***************************************************************************)
(* The Morgan fingerprint of a chain molecule.                             *)
(***************************************************************************)
\* width of the hash values
HashModulus == 32749

\* hash_combine: mixes a value into a seed
HashCombine(seed, v) == (seed * 12 + v + 9) % HashModulus

AtomicNum(sym) == IF sym = "C" THEN 6 ELSE 8
Valence(sym) == IF sym = "C" THEN 4 ELSE 2

\* neighbours of atom a in a chain of n atoms
Nbrs(n, a) == {a - 1, a + 1} \cap (1 .. n)

\* the bond between neighbouring atoms a and o (bond b joins b and b + 1)
BondBetween(a, o) == IF a < o THEN a ELSE o

SetMin(S) == CHOOSE x \in S : \A y \in S : x <= y
SetMax(S) == CHOOSE x \in S : \A y \in S : y <= x

\* layer-0 invariant of atom a: atomic number, degree, hydrogen count
AtomInvariant(mol, a) ==
    LET n == Len(mol.atoms)
        deg == Cardinality(Nbrs(n, a))
    IN HashCombine(HashCombine(HashCombine(0, AtomicNum(mol.atoms[a])), deg),
                   Valence(mol.atoms[a]) - deg)

\* invariant of atom a after one more layer: the layer number, the atom's
\* own invariant, then the (bond type, invariant) pairs of its neighbours
\* in sorted order
LayerInvariant(n, layer, inv, a) ==
    LET vals == {inv[o] : o \in Nbrs(n, a)}
        lo == SetMin(vals)
        hi == SetMax(vals)
        pair(v) == HashCombine(HashCombine(0, 1), v)
        h0 == HashCombine(layer, inv[a])
        h1 == HashCombine(h0, pair(lo))
    IN IF Cardinality(Nbrs(n, a)) = 1 THEN h1 ELSE HashCombine(h1, pair(hi))

\* bonds of the neighbourhood of atom a after one more layer
LayerNeighborhood(n, nb, a) ==
    UNION {nb[o] \cup {BondBetween(a, o)} : o \in Nbrs(n, a)}

\* the rounds of the Morgan algorithm after layer 0: st holds the current
\* invariants, the atoms' neighbourhoods, the dead atoms, the neighbourhoods
\* already seen and the hashes emitted so far
RECURSIVE MorganRounds(_, _, _, _)
MorganRounds(n, layer, radius, st) ==
    IF layer >= radius THEN st.hashes
    ELSE
      LET live == {a \in 1 .. n : a \notin st.dead /\ Nbrs(n, a) # {}}
          rinv == [a \in 1 .. n |->
                     IF a \in live THEN LayerInvariant(n, layer, st.inv, a)
                     ELSE 0]
          rnb == [a \in 1 .. n |->
                     IF a \in live THEN LayerNeighborhood(n, st.nb, a)
                     ELSE st.nb[a]]
          fresh == {a \in live : rnb[a] \notin st.seen}
          \* of the atoms with the same new neighbourhood the one with the
          \* least (invariant, index) is kept
          winner(a) == \A o \in fresh :
                          (rnb[o] = rnb[a] /\ o # a) =>
                             \/ rinv[a] < rinv[o]
                             \/ (rinv[a] = rinv[o] /\ a < o)
          kept == {a \in fresh : winner(a)}
      IN MorganRounds(n, layer + 1, radius,
            [inv |-> rinv,
             nb |-> rnb,
             dead |-> st.dead \cup ((1 .. n) \ kept),
             seen |-> st.seen \cup {rnb[a] : a \in kept},
             hashes |-> st.hashes \cup {rinv[a] : a \in kept}])

\* hashes of all the circular neighbourhoods of mol up to the radius
MorganHashes(mol, radius) ==
    LET n == Len(mol.atoms)
        inv0 == [a \in 1 .. n |-> AtomInvariant(mol, a)]
    IN MorganRounds(n, 0, radius,
          [inv |-> inv0,
           nb |-> [a \in 1 .. n |-> {}],
           dead |-> {},
           seen |-> {},
           hashes |-> {inv0[a] : a \in 1 .. n}])

\* a folding that sets the bit after the one the hash falls on
MorganBitsShifted(mol, radius, nBits) ==
    {(h + 1) % nBits : h \in MorganHashes(mol, radius)}

\* AllChem.GetMorganFingerprintAsBitVect for a molecule and unsigned
\* arguments with nBits > 0: the set of bit indices in 0 .. nBits - 1
MorganBits(mol, radius, nBits) == {h % nBits : h \in MorganHashes(mol, radius)}

\* a conversion that fills arr = np.zeros((1,)) without resizing it
ConvertToNumpyArrayNoResize(bits, nBits) == [j \in 1 .. 1 |-> (j - 1) \in bits]

\* a conversion that lists the bits that are set and no others
ConvertToNumpyArrayOnBits(bits, nBits) == [j \in 1 .. Cardinality(bits) |-> TRUE]

\* DataStructs.ConvertToNumpyArray: arr resized to the bit vector's length,
\* entry j (from 0) being the bit j
ConvertToNumpyArray(bits, nBits) == [j \in 1 .. nBits |-> (j - 1) \in bits]

(***************************************************************************)
(* Values a call produces.                                                 *)
(***************************************************************************)
\* an exception: its type and what it says about the element that caused
\* it; the exceptions RDKit and numpy raise here name neither the SMILES
\* string nor its position in the batch
NoElement == <<>>
NoIndex == 0 - 1
Exception(type) == [type |-> type, element |-> NoElement, index |-> NoIndex]
NoException == Exception(None)

\* outcomes of compute_morgan_fingerprints
Returned(arr) == [kind |-> "array", arr |-> arr, exc |-> NoException]
Raised(type) == [kind |-> "error", arr |-> <<>>, exc |-> Exception(type)]
\* the interpreter is killed by a signal
Killed == [kind |-> "killed", arr |-> <<>>, exc |-> NoException]

\* the function with a check of its parameters in front
compute_morgan_fingerprints_validating(smiles, fingerprint_length, fingerprint_radius) ==
    LET molecule == MolFromSmiles(smiles)
    IN IF fingerprint_length <= 0 \/ fingerprint_radius <= 0
       THEN {Raised("ConfigurationError")}
       ELSE IF ~molecule.valid THEN {Raised("ArgumentError")}
       ELSE {Returned(ConvertToNumpyArray(
                 MorganBits(molecule, fingerprint_radius, fingerprint_length),
                 fingerprint_length))}

\* the function giving an all-zero row for a string that does not parse
compute_morgan_fingerprints_zero_fill(smiles, fingerprint_length, fingerprint_radius) ==
    LET molecule == MolFromSmiles(smiles)
    IN IF fingerprint_radius < 0 \/ fingerprint_length < 0
       THEN {Raised("OverflowError")}
       ELSE IF ~molecule.valid
            THEN {Returned([j \in 1 .. fingerprint_length |-> FALSE])}
       ELSE IF fingerprint_length = 0 /\ Len(molecule.atoms) > 0
            THEN {Killed, Raised("IndexError")}
       ELSE {Returned(ConvertToNumpyArray(
                 MorganBits(molecule, fingerprint_radius, fingerprint_length),
                 fingerprint_length))}

\* compute_morgan_fingerprints(smiles, fingerprint_length,
\* fingerprint_radius): the set of outcomes the call can have.
\*  - MolFromSmiles yields None for a malformed string, and
\*    GetMorganFingerprintAsBitVect(None, ...) matches no C++ signature:
\*    Boost.Python raises ArgumentError;
\*  - radius and nBits are unsigned int in C++: a negative Python int
\*    raises OverflowError on conversion;
\*  - nBits = 0 with at least one atom computes hash % 0 in C++, which is
\*    undefined: the process dies of SIGFPE, or the remainder is the hash
\*    itself and setting that bit raises IndexError;
\*  - otherwise the bit vector is copied into a boolean array of
\*    fingerprint_length entries.
compute_morgan_fingerprints(smiles, fingerprint_length, fingerprint_radius) ==
    LET molecule == MolFromSmiles(smiles)
    IN IF smiles = NotAString THEN {Raised("ArgumentError")}
       ELSE IF ~molecule.valid THEN {Raised("ArgumentError")}
       ELSE IF fingerprint_radius < 0 \/ fingerprint_length < 0
            THEN {Raised("OverflowError")}
       ELSE IF fingerprint_length = 0 /\ Len(molecule.atoms) > 0
            THEN {Killed, Raised("IndexError")}
       ELSE {Returned(ConvertToNumpyArray(
                 MorganBits(molecule, fingerprint_radius, fingerprint_length),
                 fingerprint_length))}

\* the list comprehension of transform adds each array at the end of the
\* list it builds
CollectReversed(fing, arr) == <<arr>> \o fing
Collect(fing, arr) == Append(fing, arr)

\* a vstack that gives the matrix without rows for the empty list
vstack_allowing_empty(fing) ==
    IF \E j \in 1 .. Len(fing) : Len(fing[j]) # Len(fing[1])
    THEN Raised("ValueError")
    ELSE Returned(fing)

\* np.vstack(fing): the rows stacked in list order; ValueError for an empty
\* list and for rows of different lengths
vstack(fing) ==
    IF fing = <<>> THEN Raised("ValueError")
    ELSE IF \E j \in 1 .. Len(fing) : Len(fing[j]) # Len(fing[1])
         THEN Raised("ValueError")
    ELSE Returned(fing)

\* the list comprehension of transform from element i on, with the list
\* fing built so far, when nothing else runs: the set of its outcomes
RECURSIVE Comprehension(_, _, _, _, _)
Comprehension(X, i, fing, length, radius) ==
    IF i > Len(X) THEN {vstack(fing)}
    ELSE UNION {IF out.kind = "array"
                THEN Comprehension(X, i + 1, Collect(fing, out.arr),
                                   length, radius)
                ELSE {out} :
                   out \in compute_morgan_fingerprints(X[i], length, radius)}

\* MorganFingerprintTransformer.transform(self, X) run alone, from its
\* first statement to its last: the set of its outcomes
transform(self, X) == Comprehension(X, 1, <<>>, self.length, self.radius)

(***************************************************************************)
(* The program state.                                                      *)
(***************************************************************************)
\* number of threads that may call the transformer; the notebook itself
\* runs everything on the first one
NumThreads == 2
Threads == 1 .. NumThreads
MainThread == 1

\* identity of the transformer object bound to the name m
TransformerId == 1
NoRef == 0

\* batches X: lists of at most MaxBatch identifiers
Batches == UNION {[1 .. n -> Identifiers] : n \in 0 .. MaxBatch}

\* the iterables fit is called on: their elements need not be strings
\* (here the batches, and the short ones with a None put at their end)
Iterables ==
    Batches \cup {Append(X, NotAString) : X \in {B \in Batches : Len(B) <= 1}}

\* the optional argument y: absent (y=None) or one target per element
\* (here the element's position stands for its band gap)
NoTargets == [given |-> FALSE, values |-> <<>>]
YArgs(X) == {NoTargets, [given |-> TRUE, values |-> [j \in 1 .. Len(X) |-> j]]}

VARIABLES
    m,       \* the transformer: its identity and its attributes length, radius
    frames,  \* per thread, the call of fit or transform in progress
    last     \* the outcome of transform the caller kept last, and its inputs

vars == <<m, frames, last>>

NoResult == [kind |-> "none", arr |-> <<>>, exc |-> NoException]

\* a thread that is not inside a call
IdleFrame == [pc |-> "idle", op |-> "none", self |-> NoRef, X |-> <<>>,
              i |-> 0, fing |-> <<>>, l |-> 0, len0 |-> 0, rad0 |-> 0,
              result |-> NoResult, ref |-> NoRef]

NoLast == [held |-> FALSE, X |-> <<>>, length |-> 0, radius |-> 0,
           result |-> NoResult, i |-> 0]

\* no call has killed the interpreter
Alive == \A t \in Threads : frames[t].pc # "killed"

\* no call is in progress
Quiescent == \A t \in Threads : frames[t].pc = "idle"

\* MorganFingerprintTransformer.__init__: stores its arguments, unchecked
MorganFingerprintTransformer(length, radius) ==
    [id |-> TransformerId, length |-> length, radius |-> radius]

(***************************************************************************)
(* What else the notebooks hold: the training set X, y of the linear       *)
(* models, the linear model lr_2 of the exercise and the outcomes of the   *)
(* cells that use it.  The specifications of the transformer leave them    *)
(* as they are.                                                            *)
(***************************************************************************)
VARIABLES data, lr_2, cells

lvars == <<data, lr_2, cells>>

\* a fraction num/den with den > 0 (coefficients are floats in the code)
Fraction(num, den) == [num |-> num, den |-> den]
Zero == Fraction(0, 1)

\* the name lr_2 before the exercise cell has run
NoEstimator == [made |-> FALSE, fit_intercept |-> FALSE, fitted |-> FALSE,
                coef_ |-> Zero, intercept_ |-> Zero]

\* the names X and y before their cells have run
NoData == [X |-> <<>>, y |-> <<>>]

\* no prediction made, the assert cell not run
NoCells == [predicted |-> FALSE, y_pred_2 |-> Zero, assert |-> "not run"]

InitLinear == data = NoData /\ lr_2 = NoEstimator /\ cells = NoCells

(***************************************************************************)
(* The pipeline model = Pipeline([('fingerprint', ...), ('knn', ...)]):    *)
(* its final estimator knn and the call of the pipeline that is running.   *)
(* In the specifications of the pipeline, m is its fingerprint step.       *)
(***************************************************************************)
VARIABLES knn, pipe

pvars == <<knn, pipe>>

\* KNeighborsRegressor(n_neighbors=..., metric='jaccard'), not fitted; a
\* fitted one keeps the training matrix X and the targets y
KNeighborsRegressor(n_neighbors) ==
    [n_neighbors |-> n_neighbors, fitted |-> FALSE, X |-> <<>>, y |-> <<>>]

\* n_neighbors of the pipeline's estimator
Neighbors == 2

\* what a call of the pipeline gives: the pipeline itself (fit), a list of
\* predictions (predict) or an exception
NoOutcome == [kind |-> "none", pred |-> <<>>, exc |-> NoException]

\* no call of the pipeline is running; calls lists the calls the pipeline
\* has made on its steps, Xt is the matrix handed to the final estimator
IdlePipe == [pc |-> "idle", op |-> "none", X |-> <<>>, calls |-> <<>>,
             Xt |-> <<>>, result |-> NoOutcome]

InitPipeline == knn = KNeighborsRegressor(Neighbors) /\ pipe = IdlePipe

(***************************************************************************)
(* The training-set-size experiment: the position of its three loops and   *)
(* the list results.                                                       *)
(***************************************************************************)
VARIABLES exp

evars == <<exp>>

\* before the cell runs: li, si and i are the positions in the three loops,
\* subset is the sample of the training data of the present repetition
NoExperiment == [pc |-> "not run", li |-> 0, si |-> 0, i |-> 0,
                 subset |-> <<>>, results |-> <<>>]

InitExperiment == exp = NoExperiment

(***************************************************************************)
(* The notebooks are three programs: the fingerprint notebook, the         *)
(* notebook of the linear models (lr, pf and the pipeline pr) and the      *)
(* notebook of kernel ridge regression (krr and the grid search gs).  nb   *)
(* says which one is running and which of its statements is next.          *)
(***************************************************************************)
VARIABLES nb, lr, pf, pr, krr, gs

kvars == <<nb, lr, pf, pr, krr, gs>>

\* cell is the statement that runs next, n the position in its loop,
\* X_poly, y_pred and valid are the names the cells bind: a matrix, the last
\* predictions made and the samples drawn for validation
Notebook(name) ==
    [name |-> name, cell |-> "start", n |-> 0, X_poly |-> <<>>,
     y_pred |-> <<>>, valid |-> {}]

\* a name that is not bound yet
Unbound == [bound |-> FALSE]

InitNotebooks ==
    /\ nb = Notebook("fingerprints")
    /\ lr = Unbound
    /\ pf = Unbound
    /\ pr = Unbound
    /\ krr = Unbound
    /\ gs = Unbound

outside == <<lvars, pvars, evars, kvars>>

InitOutside == InitLinear /\ InitPipeline /\ InitExperiment /\ InitNotebooks

allvars == <<vars, outside>>

Init ==
    /\ \E length \in LengthValues, radius \in RadiusValues :
          m = MorganFingerprintTransformer(length, radius)
    /\ frames = [t \in Threads |-> IdleFrame]
    /\ last = NoLast
    /\ InitOutside

(***************************************************************************)
(* Configuration: attribute assignment and BaseEstimator.set_params.       *)
(***************************************************************************)
\* an assignment that also cuts the kept matrix down to the new length
SetLengthResizing(length) ==
    /\ Alive
    /\ m' = [m EXCEPT !.length = length]
    /\ last' = [last EXCEPT !.result.arr =
                  [j \in DOMAIN last.result.arr |->
                      IF length >= 0 /\ length < Len(last.result.arr[j])
                      THEN SubSeq(last.result.arr[j], 1, length)
                      ELSE last.result.arr[j]]]
    /\ UNCHANGED frames

\* setattr(self, name, value): what an assignment self.name = value does
setattr(self, name, value) == [self EXCEPT ![name] = value]

\* the parameters of the estimator: BaseEstimator reads their names off the
\* signature of __init__
ParamNames == {"length", "radius"}

\* BaseEstimator.get_params: getattr for each parameter name
get_params(self) == [k \in ParamNames |-> self[k]]

\* a set_params that builds the estimator anew from the parameters given,
\* the others falling back to the defaults of __init__
set_params_reinit(self, params) ==
    [id |-> self.id,
     length |-> IF "length" \in DOMAIN params THEN params.length ELSE 256,
     radius |-> IF "radius" \in DOMAIN params THEN params.radius ELSE 4]

\* BaseEstimator.set_params(params): setattr for each parameter given
set_params(self, params) ==
    LET a == IF "length" \in DOMAIN params
             THEN setattr(self, "length", params.length) ELSE self
    IN IF "radius" \in DOMAIN params
       THEN setattr(a, "radius", params.radius) ELSE a

\* m.length = length
SetLength(length) ==
    /\ Alive
    /\ m' = setattr(m, "length", length)
    /\ UNCHANGED <<frames, last>>

\* m.radius = radius
SetRadius(radius) ==
    /\ Alive
    /\ m' = setattr(m, "radius", radius)
    /\ UNCHANGED <<frames, last>>

\* the keyword arguments set_params can be given
ParamArgs ==
    {[k \in {"length"} |-> v] : v \in LengthValues} \cup
    {[k \in {"radius"} |-> v] : v \in RadiusValues} \cup
    {[k \in {"length", "radius"} |-> IF k = "length" THEN v ELSE w] :
        v \in LengthValues, w \in RadiusValues}

\* m.set_params(params)
SetParams(params) ==
    /\ Alive
    /\ m' = set_params(m, params)
    /\ UNCHANGED <<frames, last>>

(***************************************************************************)
(* fit and transform.                                                      *)
(***************************************************************************)
\* self.length and self.radius as transform reads them; the Cached variants
\* read the configuration of the last kept call instead
CachedLength == IF last.held THEN last.length ELSE m.length
\* a length that falls back to 1 once a call has failed with a length
\* below 1
RepairedLength ==
    IF last.held /\ last.result.kind = "error" /\ m.length < 1
    THEN 1 ELSE m.length
SelfLength == m.length
CachedRadius == IF last.held THEN last.radius ELSE m.radius
SelfRadius == m.radius

\* the call of frame f ends with the outcome out
Finish(f, out) ==
    [f EXCEPT !.pc = IF out.kind = "killed" THEN "killed" ELSE "done",
              !.result = out]

\* a fit that returns a fresh copy of the transformer
fit_clone(self, X, y) == [ret |-> self.id + 1, self |-> self]

\* a fit that learns the length from the size of its batch
fit_learning(self, X, y) ==
    [ret |-> self.id, self |-> [self EXCEPT !.length = Len(X)]]

\* a fit that looks at its batch and returns nothing for one with an
\* element that is no SMILES string
fit_validating(self, X, y) ==
    [ret |-> IF \E j \in 1 .. Len(X) : ~MolFromSmiles(X[j]).valid
             THEN NoRef ELSE self.id,
     self |-> self]

\* MorganFingerprintTransformer.fit(self, X, y): what it returns and the
\* object it leaves; it returns self and writes nothing
fit(self, X, y) == [ret |-> self.id, self |-> self]

\* m.fit(X, y)
Fit(t, X, y) ==
    /\ Alive
    /\ frames[t].pc = "idle"
    /\ frames' = [frames EXCEPT ![t] =
          [IdleFrame EXCEPT !.pc = "done", !.op = "fit", !.self = m.id,
                            !.X = X, !.len0 = m.length, !.rad0 = m.radius,
                            !.ref = fit(m, X, y).ret]]
    /\ m' = fit(m, X, y).self
    /\ UNCHANGED last

\* m.transform(X, y) is entered: the list comprehension starts with an
\* empty list; for an empty X it ends at once and np.vstack gets []
TransformCall(t, X, y) ==
    /\ Alive
    /\ frames[t].pc = "idle"
    /\ LET f == [IdleFrame EXCEPT !.pc = "load_length", !.op = "transform",
                                  !.self = m.id, !.X = X, !.i = 1,
                                  !.len0 = m.length, !.rad0 = m.radius]
       IN frames' = [frames EXCEPT ![t] =
             IF X = <<>> THEN Finish(f, vstack(<<>>)) ELSE f]
    /\ UNCHANGED <<m, last>>

\* a transform that first forces the length it finds to be at least 1
LoadLengthClamping(t) ==
    /\ Alive
    /\ frames[t].pc = "load_length"
    /\ m' = [m EXCEPT !.length = IF m.length < 1 THEN 1 ELSE m.length]
    /\ frames' = [frames EXCEPT ![t].l = m'.length, ![t].pc = "featurize"]
    /\ UNCHANGED last

\* the argument self.length of the next compute_morgan_fingerprints call is
\* evaluated
LoadLength(t) ==
    /\ Alive
    /\ frames[t].pc = "load_length"
    /\ frames' = [frames EXCEPT ![t].l = SelfLength, ![t].pc = "featurize"]
    /\ UNCHANGED <<m, last>>

\* a transform whose calls append to one list shared by all threads
FeaturizeSharedList(t) ==
    /\ Alive
    /\ frames[t].pc = "featurize"
    /\ LET f == frames[t]
           others == {u \in Threads \ {t} : frames[u].fing # <<>>}
           shared == IF others = {} THEN f.fing
                     ELSE frames[SetMin(others)].fing
       IN \E out \in compute_morgan_fingerprints(f.X[f.i], f.l, SelfRadius) :
             frames' = [frames EXCEPT ![t] =
                IF out.kind # "array" THEN Finish(f, out)
                ELSE LET fing == Collect(shared, out.arr)
                     IN IF f.i = Len(f.X)
                        THEN Finish([f EXCEPT !.fing = fing], vstack(fing))
                        ELSE [f EXCEPT !.fing = fing, !.i = f.i + 1,
                                       !.pc = "load_length"]]
    /\ UNCHANGED <<m, last>>

\* self.radius is evaluated and compute_morgan_fingerprints is called on
\* element i; its array is appended to the list, and after the last element
\* the list goes to np.vstack; an exception ends the call
Featurize(t) ==
    /\ Alive
    /\ frames[t].pc = "featurize"
    /\ LET f == frames[t]
       IN \E out \in compute_morgan_fingerprints(f.X[f.i], f.l, SelfRadius) :
             frames' = [frames EXCEPT ![t] =
                IF out.kind # "array" THEN Finish(f, out)
                ELSE LET fing == Collect(f.fing, out.arr)
                     IN IF f.i = Len(f.X)
                        THEN Finish([f EXCEPT !.fing = fing], vstack(fing))
                        ELSE [f EXCEPT !.fing = fing, !.i = f.i + 1,
                                       !.pc = "load_length"]]
    /\ UNCHANGED <<m, last>>

\* the call returns to the caller (or its exception reaches the caller);
\* the caller may bind the outcome of transform to a variable, as the
\* notebook does with test_fng, or drop it; the model keeps the outcomes
\* of batches of at most MaxKept elements
Return(t, keep) ==
    /\ Alive
    /\ frames[t].pc = "done"
    /\ keep => frames[t].op = "transform" /\ Len(frames[t].X) <= MaxKept
    /\ frames' = [frames EXCEPT ![t] = IdleFrame]
    /\ last' = IF keep
               THEN [held |-> TRUE, X |-> frames[t].X,
                     length |-> frames[t].len0, radius |-> frames[t].rad0,
                     result |-> frames[t].result, i |-> frames[t].i]
               ELSE last
    /\ UNCHANGED m

(***************************************************************************)
(* The notebook: one thread, one statement after the other.                *)
(***************************************************************************)
Next ==
    \/ \E length \in LengthValues : Quiescent /\ SetLength(length)
          /\ UNCHANGED outside
    \/ \E radius \in RadiusValues : Quiescent /\ SetRadius(radius)
          /\ UNCHANGED outside
    \/ \E params \in ParamArgs : Quiescent /\ SetParams(params)
          /\ UNCHANGED outside
    \/ \E X \in Iterables : \E y \in YArgs(X) : Fit(MainThread, X, y)
          /\ UNCHANGED outside
    \/ \E X \in Batches : \E y \in YArgs(X) : TransformCall(MainThread, X, y)
          /\ UNCHANGED outside
    \/ LoadLength(MainThread)
          /\ UNCHANGED outside
    \/ Featurize(MainThread)
          /\ UNCHANGED outside
    \/ \E keep \in BOOLEAN : Return(MainThread, keep)
          /\ UNCHANGED outside

Spec == Init /\ [][Next]_allvars

(***************************************************************************)
(* A second thread assigns to the configuration while the first one calls  *)
(* the transformer.                                                        *)
(***************************************************************************)
\* m.length = length, on another thread, at any moment
ConcurrentSetLength(length) ==
    /\ Alive
    /\ length # m.length
    /\ m' = [m EXCEPT !.length = length]
    /\ UNCHANGED <<frames, last>>

\* m.radius = radius, on another thread, at any moment
ConcurrentSetRadius(radius) ==
    /\ Alive
    /\ radius # m.radius
    /\ m' = [m EXCEPT !.radius = radius]
    /\ UNCHANGED <<frames, last>>

NextMutate ==
    \/ \E length \in 1 .. MaxLength : ConcurrentSetLength(length)
          /\ UNCHANGED outside
    \/ \E radius \in 0 .. MaxRadius : ConcurrentSetRadius(radius)
          /\ UNCHANGED outside
    \/ \E X \in Batches : \E y \in YArgs(X) : TransformCall(MainThread, X, y)
          /\ UNCHANGED outside
    \/ LoadLength(MainThread)
          /\ UNCHANGED outside
    \/ Featurize(MainThread)
          /\ UNCHANGED outside
    \/ Return(MainThread, FALSE)
          /\ UNCHANGED outside

SpecMutate == Init /\ [][NextMutate]_allvars

(***************************************************************************)
(* The notebook's own values: m = MorganFingerprintTransformer(4, 4),      *)
(* m.transform(['C']) and, later, m.length = 256.                          *)
(***************************************************************************)
ExampleLength == 4
ExampleRadius == 4
NotebookLength == 256

InitExample ==
    /\ m = MorganFingerprintTransformer(ExampleLength, ExampleRadius)
    /\ frames = [t \in Threads |-> IdleFrame]
    /\ last = NoLast
    /\ InitOutside

NextExample ==
    \/ \E length \in {ExampleLength, NotebookLength} :
          Quiescent /\ SetLength(length)
          /\ UNCHANGED outside
    \/ \E X \in Batches : \E y \in YArgs(X) : TransformCall(MainThread, X, y)
          /\ UNCHANGED outside
    \/ LoadLength(MainThread)
          /\ UNCHANGED outside
    \/ Featurize(MainThread)
          /\ UNCHANGED outside
    \/ \E keep \in BOOLEAN : Return(MainThread, keep)
          /\ UNCHANGED outside

SpecExample == InitExample /\ [][NextExample]_allvars

(***************************************************************************)
(* Two threads call transform on the one transformer; the configuration   *)
(* is assigned to between the calls only.                                  *)
(***************************************************************************)
OtherThread == 2

Callers == {MainThread, OtherThread}

NextConcurrent ==
    \/ \E length \in LengthValues : Quiescent /\ SetLength(length)
          /\ UNCHANGED outside
    \/ \E radius \in RadiusValues : Quiescent /\ SetRadius(radius)
          /\ UNCHANGED outside
    \/ \E t \in Callers : \E X \in Batches : \E y \in YArgs(X) :
          TransformCall(t, X, y)
          /\ UNCHANGED outside
    \/ \E t \in Callers : LoadLength(t)
          /\ UNCHANGED outside
    \/ \E t \in Callers : Featurize(t)
          /\ UNCHANGED outside
    \/ \E t \in Callers : Return(t, FALSE)
          /\ UNCHANGED outside

SpecConcurrent == Init /\ [][NextConcurrent]_allvars

(***************************************************************************)
(* The linear-regression exercise: lr_2 = LinearRegression(...),           *)
(* lr_2.fit(X, y), y_pred_2 = lr_2.predict(x_eval) and the cell            *)
(* assert lr_2.intercept_ == 0.  X has one column; the n_points samples    *)
(* of the notebook are up to MaxPoints samples here, with values in        *)
(* 0 .. MaxValue, drawn once.                                              *)
(***************************************************************************)
MaxPoints == 2
MaxValue == 2

Points == 0 .. MaxValue

\* training sets: the column X and the targets y, one per sample
Datasets ==
    UNION {{[X |-> a, y |-> b] : a \in [1 .. n -> Points],
                                 b \in [1 .. n -> Points]} :
              n \in 1 .. MaxPoints}

RECURSIVE SumSeq(_)
SumSeq(sq) == IF sq = <<>> THEN 0 ELSE Head(sq) + SumSeq(Tail(sq))

Dot(a, b) == SumSeq([j \in 1 .. Len(a) |-> a[j] * b[j]])

\* LinearRegression(fit_intercept=...): an estimator that is not fitted
LinearRegression(fit_intercept) ==
    [NoEstimator EXCEPT !.made = TRUE, !.fit_intercept = fit_intercept]

\* a fit that centres the data whatever fit_intercept says
LinearRegressionFitCentering(self, X, y) ==
    LET n == Len(X)
        cxx == n * Dot(X, X) - SumSeq(X) * SumSeq(X)
        cxy == n * Dot(X, y) - SumSeq(X) * SumSeq(y)
    IN [self EXCEPT
          !.fitted = TRUE,
          !.coef_ = IF cxx = 0 THEN Zero ELSE Fraction(cxy, cxx),
          !.intercept_ = IF cxx = 0 THEN Fraction(SumSeq(y), n)
                         ELSE Fraction(SumSeq(y) * cxx - cxy * SumSeq(X),
                                       n * cxx)]

\* LinearRegression.fit(X, y), least squares in one variable: with
\* fit_intercept the data are centred, the slope is fitted and intercept_
\* is mean(y) - coef_ * mean(X); without it the slope is fitted through the
\* origin and intercept_ is set to 0.0.  A column of equal values gives
\* the least-norm slope 0.
LinearRegressionFit(self, X, y) ==
    LET n == Len(X)
        cxx == n * Dot(X, X) - SumSeq(X) * SumSeq(X)
        cxy == n * Dot(X, y) - SumSeq(X) * SumSeq(y)
    IN IF self.fit_intercept
       THEN [self EXCEPT
               !.fitted = TRUE,
               !.coef_ = IF cxx = 0 THEN Zero ELSE Fraction(cxy, cxx),
               !.intercept_ = IF cxx = 0 THEN Fraction(SumSeq(y), n)
                              ELSE Fraction(SumSeq(y) * cxx - cxy * SumSeq(X),
                                            n * cxx)]
       ELSE [self EXCEPT
               !.fitted = TRUE,
               !.coef_ = IF Dot(X, X) = 0 THEN Zero
                         ELSE Fraction(Dot(X, y), Dot(X, X)),
               !.intercept_ = Zero]

\* LinearRegression.predict at one point: coef_ * x + intercept_
LinearRegressionPredict(self, x) ==
    Fraction(self.coef_.num * x * self.intercept_.den
                + self.intercept_.num * self.coef_.den,
             self.coef_.den * self.intercept_.den)

\* lr_2 = LinearRegression(fit_intercept=...): the hidden answer passes
\* False; the exercise text can also be read as asking for the default
MakeEstimator(fit_intercept) ==
    /\ lr_2' = LinearRegression(fit_intercept)
    /\ cells' = NoCells
    /\ UNCHANGED <<vars, data>>

\* lr_2.fit(X, y)
FitEstimator ==
    /\ lr_2.made
    /\ lr_2' = LinearRegressionFit(lr_2, data.X, data.y)
    /\ cells' = NoCells
    /\ UNCHANGED <<vars, data>>

\* y_pred_2 = lr_2.predict(x_eval), at one of the points of x_eval
PredictEstimator(x) ==
    /\ lr_2.fitted
    /\ cells' = [cells EXCEPT !.predicted = TRUE,
                              !.y_pred_2 = LinearRegressionPredict(lr_2, x)]
    /\ UNCHANGED <<vars, data, lr_2>>

\* the cell assert lr_2.intercept_ == 0: NameError before lr_2 is bound,
\* AttributeError before it is fitted
AssertCell ==
    /\ cells' = [cells EXCEPT !.assert =
          IF ~lr_2.made THEN "NameError"
          ELSE IF ~lr_2.fitted THEN "AttributeError"
          ELSE IF lr_2.intercept_.num = 0 THEN "passed"
          ELSE "AssertionError"]
    /\ UNCHANGED <<vars, data, lr_2>>

NextLinear ==
    \/ \E fit_intercept \in BOOLEAN :
          MakeEstimator(fit_intercept) /\ UNCHANGED <<pvars, evars, kvars>>
    \/ FitEstimator /\ UNCHANGED <<pvars, evars, kvars>>
    \/ \E x \in Points : PredictEstimator(x) /\ UNCHANGED <<pvars, evars, kvars>>
    \/ AssertCell /\ UNCHANGED <<pvars, evars, kvars>>

\* X and y are drawn once, by the cells above the exercise
InitLinearCells ==
    /\ m = MorganFingerprintTransformer(ExampleLength, ExampleRadius)
    /\ frames = [t \in Threads |-> IdleFrame]
    /\ last = NoLast
    /\ data \in Datasets
    /\ lr_2 = NoEstimator
    /\ cells = NoCells
    /\ InitPipeline
    /\ InitExperiment
    /\ InitNotebooks

SpecLinear == InitLinearCells /\ [][NextLinear]_allvars

(***************************************************************************)
(* The pipeline.  Pipeline.fit(X, y) calls fit_transform(X, y) of the      *)
(* fingerprint step, which TransformerMixin defines as                     *)
(* fit(X, y).transform(X), and then fit(Xt, y) of the final estimator;     *)
(* Pipeline.predict(X) calls transform(X) of the fingerprint step and then *)
(* predict(Xt) of the final estimator.  An exception of a step ends the    *)
(* call of the pipeline.                                                   *)
(***************************************************************************)
\* length and radius of MorganFingerprintTransformer()
DefaultLength == 256
DefaultRadius == 4

\* the lengths the experiment gives the fingerprint step
ExperimentLengths == <<32, 64, 128>>

\* the lengths model.set_params(fingerprint__length=...) is called with
PipelineLengths ==
    {DefaultLength} \cup {ExperimentLengths[k] : k \in DOMAIN ExperimentLengths}

\* the column bandgap of the data: one number per molecule (here the number
\* of characters of its SMILES string)
Bandgap(smiles) == Len(smiles)
Targets(X) == [given |-> TRUE, values |-> [j \in 1 .. Len(X) |-> Bandgap(X[j])]]

\* outcomes of a call of the pipeline or of its final estimator
Fitted == [kind |-> "model", pred |-> <<>>, exc |-> NoException]
Predicted(pred) == [kind |-> "predictions", pred |-> pred, exc |-> NoException]
Failed(exc) == [kind |-> "error", pred |-> <<>>, exc |-> exc]

\* Jaccard similarity of two rows of bits as the pair (bits set in both,
\* bits set in either); two empty rows count as equal
Jaccard(a, b) ==
    LET both == Cardinality({j \in 1 .. Len(a) : a[j] /\ b[j]})
        either == Cardinality({j \in 1 .. Len(a) : a[j] \/ b[j]})
    IN IF either = 0 THEN <<1, 1>> ELSE <<both, either>>

\* training row j is nearer to row than training row k is (the earlier row
\* wins a tie)
Nearer(X, row, j, k) ==
    LET sj == Jaccard(X[j], row)
        sk == Jaccard(X[k], row)
    IN \/ sj[1] * sk[2] > sk[1] * sj[2]
       \/ sj[1] * sk[2] = sk[1] * sj[2] /\ j < k

\* the n_neighbors training rows nearest to row
Nearest(self, row) ==
    {j \in 1 .. Len(self.X) :
        Cardinality({k \in 1 .. Len(self.X) : Nearer(self.X, row, k, j)})
           < self.n_neighbors}

\* KNeighborsRegressor.fit(X, y): the estimator keeps the training data
KNeighborsFit(self, X, y) == [self EXCEPT !.fitted = TRUE, !.X = X, !.y = y]

\* KNeighborsRegressor.predict(X): for each row the mean target of the
\* n_neighbors nearest training rows; NotFittedError before fit, ValueError
\* for rows of another width than the training rows and for fewer training
\* rows than n_neighbors
KNeighborsPredict(self, X) ==
    IF ~self.fitted THEN Failed(Exception("NotFittedError"))
    ELSE IF Len(X[1]) # Len(self.X[1]) THEN Failed(Exception("ValueError"))
    ELSE IF Len(self.X) < self.n_neighbors
         THEN Failed(Exception("ValueError"))
    ELSE Predicted([r \in 1 .. Len(X) |->
            Fraction(SumSeq([j \in 1 .. Len(self.y) |->
                               IF j \in Nearest(self, X[r]) THEN self.y[j]
                               ELSE 0]),
                     self.n_neighbors)])

\* a set_params that hands the parameter to the step named and makes the
\* other steps anew, as clone does: their parameters stay, what they have
\* learned goes
NestedSetParamsCloning(steps, step, param, value) ==
    [s \in DOMAIN steps |->
        IF s = step THEN setattr(steps[s], param, value)
        ELSE [steps[s] EXCEPT !.fitted = FALSE]]

\* Pipeline.set_params(step__param=value): BaseEstimator.set_params cuts
\* the key at the two underscores and calls set_params(param=value) of the
\* step of that name, which is setattr(step, param, value)
NestedSetParams(steps, step, param, value) ==
    [steps EXCEPT ![step] = setattr(@, param, value)]

\* model.set_params(fingerprint__length=length), between calls
PipelineSetParams(length) ==
    /\ pipe.pc = "idle"
    /\ Quiescent
    /\ Alive
    /\ LET steps == NestedSetParams([fingerprint |-> m, knn |-> knn],
                                    "fingerprint", "length", length)
       IN m' = steps.fingerprint /\ knn' = steps.knn
    /\ UNCHANGED <<frames, last, pipe>>

\* model.fit(X, y) is entered
PipelineFit(X) ==
    /\ pipe.pc = "idle"
    /\ Quiescent
    /\ Alive
    /\ pipe' = [IdlePipe EXCEPT !.pc = "fit_step", !.op = "fit", !.X = X]
    /\ UNCHANGED <<vars, knn>>

\* a predict that fits the fingerprint step first, as fit does
PipelinePredictRefitting(X) ==
    /\ pipe.pc = "idle"
    /\ Quiescent
    /\ Alive
    /\ pipe' = [IdlePipe EXCEPT !.pc = "fit_step", !.op = "predict", !.X = X]
    /\ UNCHANGED <<vars, knn>>

\* model.predict(X) is entered
PipelinePredict(X) ==
    /\ pipe.pc = "idle"
    /\ Quiescent
    /\ Alive
    /\ pipe' = [IdlePipe EXCEPT !.pc = "transform_step", !.op = "predict",
                                !.X = X]
    /\ UNCHANGED <<vars, knn>>

\* fit_transform of the fingerprint step: its fit is called
PipelineStepFit ==
    /\ pipe.pc = "fit_step"
    /\ Fit(MainThread, pipe.X, Targets(pipe.X))
    /\ pipe' = [pipe EXCEPT !.pc = "fit_returned",
                            !.calls = Append(@, "fingerprint.fit")]
    /\ UNCHANGED knn

\* the fit of the fingerprint step has returned the step
PipelineStepFitReturned ==
    /\ pipe.pc = "fit_returned"
    /\ Return(MainThread, FALSE)
    /\ pipe' = [pipe EXCEPT !.pc = "transform_step"]
    /\ UNCHANGED knn

\* the transform of the fingerprint step is called
PipelineStepTransform ==
    /\ pipe.pc = "transform_step"
    /\ TransformCall(MainThread, pipe.X, NoTargets)
    /\ pipe' = [pipe EXCEPT !.pc = "transforming",
                            !.calls = Append(@, "fingerprint.transform")]
    /\ UNCHANGED knn

\* the transform of the fingerprint step runs
PipelineStepLoadLength ==
    /\ pipe.pc = "transforming"
    /\ LoadLength(MainThread)
    /\ UNCHANGED pvars

PipelineStepFeaturize ==
    /\ pipe.pc = "transforming"
    /\ Featurize(MainThread)
    /\ UNCHANGED pvars

\* a fit that swallows the exception of the transform and hands the rows
\* collected before it to the final estimator
PipelineStepTransformReturnedSuppressing ==
    /\ pipe.pc = "transforming"
    /\ Return(MainThread, FALSE)
    /\ pipe' = IF frames[MainThread].result.kind = "array"
               THEN [pipe EXCEPT !.pc = "final_step",
                                 !.Xt = frames[MainThread].result.arr]
               ELSE IF pipe.op = "fit"
                    THEN [pipe EXCEPT !.pc = "final_step",
                                      !.Xt = frames[MainThread].fing]
               ELSE [pipe EXCEPT !.pc = "done",
                                 !.result =
                                    Failed(frames[MainThread].result.exc)]
    /\ UNCHANGED knn

\* the transform has ended: its matrix goes to the final estimator, its
\* exception ends the call of the pipeline
PipelineStepTransformReturned ==
    /\ pipe.pc = "transforming"
    /\ Return(MainThread, FALSE)
    /\ pipe' = IF frames[MainThread].result.kind = "array"
               THEN [pipe EXCEPT !.pc = "final_step",
                                 !.Xt = frames[MainThread].result.arr]
               ELSE [pipe EXCEPT !.pc = "done",
                                 !.result =
                                    Failed(frames[MainThread].result.exc)]
    /\ UNCHANGED knn

\* the final estimator is called: fit(Xt, y) in Pipeline.fit, which then
\* returns the pipeline, predict(Xt) in Pipeline.predict
PipelineStepFinal ==
    /\ pipe.pc = "final_step"
    /\ Alive
    /\ IF pipe.op = "fit"
       THEN /\ knn' = KNeighborsFit(knn, pipe.Xt, Targets(pipe.X).values)
            /\ pipe' = [pipe EXCEPT !.pc = "done", !.result = Fitted,
                                    !.calls = Append(@, "knn.fit")]
       ELSE /\ knn' = knn
            /\ pipe' = [pipe EXCEPT !.pc = "done",
                                    !.result = KNeighborsPredict(knn, pipe.Xt),
                                    !.calls = Append(@, "knn.predict")]
    /\ UNCHANGED vars

\* the call of the pipeline returns to its caller
PipelineReturn ==
    /\ pipe.pc = "done"
    /\ Alive
    /\ pipe' = IdlePipe
    /\ UNCHANGED <<vars, knn>>

\* a pipeline whose fingerprint step is made with the first length of the
\* experiment
InitModelWithExperimentLength ==
    /\ m = MorganFingerprintTransformer(ExperimentLengths[1], DefaultRadius)
    /\ frames = [t \in Threads |-> IdleFrame]
    /\ last = NoLast
    /\ InitOutside

\* model = Pipeline([('fingerprint', MorganFingerprintTransformer()),
\* ('knn', KNeighborsRegressor(n_neighbors=2, metric='jaccard'))])
InitModel ==
    /\ m = MorganFingerprintTransformer(DefaultLength, DefaultRadius)
    /\ frames = [t \in Threads |-> IdleFrame]
    /\ last = NoLast
    /\ InitOutside

NextPipeline ==
    \/ \E length \in PipelineLengths :
          PipelineSetParams(length) /\ UNCHANGED <<lvars, evars, kvars>>
    \/ \E X \in Batches : PipelineFit(X) /\ UNCHANGED <<lvars, evars, kvars>>
    \/ \E X \in Batches : PipelinePredict(X) /\ UNCHANGED <<lvars, evars, kvars>>
    \/ PipelineStepFit /\ UNCHANGED <<lvars, evars, kvars>>
    \/ PipelineStepFitReturned /\ UNCHANGED <<lvars, evars, kvars>>
    \/ PipelineStepTransform /\ UNCHANGED <<lvars, evars, kvars>>
    \/ PipelineStepLoadLength /\ UNCHANGED <<lvars, evars, kvars>>
    \/ PipelineStepFeaturize /\ UNCHANGED <<lvars, evars, kvars>>
    \/ PipelineStepTransformReturned /\ UNCHANGED <<lvars, evars, kvars>>
    \/ PipelineStepFinal /\ UNCHANGED <<lvars, evars, kvars>>
    \/ PipelineReturn /\ UNCHANGED <<lvars, evars, kvars>>

SpecPipeline == InitModel /\ [][NextPipeline]_allvars

(***************************************************************************)
(* The training-set-size experiment: for each length, each training-set    *)
(* size and each repetition, a sample of the training data is drawn, the   *)
(* pipeline is fitted on it and predicts the test set, and a record is     *)
(* appended to results.  A sample of s molecules is a batch of Neighbors   *)
(* to MaxBatch molecules here; the two scores of a record, floats computed *)
(* from the predictions, are left out of it.                               *)
(***************************************************************************)
TrainSizes == <<3, 10, 30, 100, 300, 1000, 3000>>
Repetitions == 16

\* train_data.sample(s): the batches a sample can be
TrainSubsets ==
    {X \in Batches : /\ Len(X) >= Neighbors
                     /\ \A j \in 1 .. Len(X) : MolFromSmiles(X[j]).valid}

\* test_data['smiles_0']
TestSmiles == <<Methanol, Methane>>

\* the cell starts: results = [] and the first l
ExperimentStart ==
    /\ exp.pc = "not run"
    /\ pipe.pc = "idle"
    /\ exp' = [NoExperiment EXCEPT !.pc = "set_params", !.li = 1, !.si = 1]
    /\ UNCHANGED <<vars, pvars>>

\* model.set_params(fingerprint__length=l), then the first s and i
LoopSetParams ==
    /\ exp.pc = "set_params"
    /\ PipelineSetParams(ExperimentLengths[exp.li])
    /\ exp' = [exp EXCEPT !.pc = "sample", !.si = 1, !.i = 0]

\* subset = train_data.sample(s)
LoopSample ==
    /\ exp.pc = "sample"
    /\ \E subset \in TrainSubsets :
          exp' = [exp EXCEPT !.pc = "fit", !.subset = subset]
    /\ UNCHANGED <<vars, pvars>>

\* model.fit(subset['smiles_0'], subset['bandgap']) is called
LoopFit ==
    /\ exp.pc = "fit"
    /\ PipelineFit(exp.subset)
    /\ exp' = [exp EXCEPT !.pc = "fitting"]

\* model.fit has returned; an exception leaves the loops
LoopFitReturned ==
    /\ exp.pc = "fitting"
    /\ PipelineReturn
    /\ exp' = [exp EXCEPT !.pc = IF pipe.result.kind = "error"
                                 THEN "failed" ELSE "predict"]

\* a predict that first puts the fingerprint step back to its default length
LoopPredictAtDefault ==
    /\ exp.pc = "predict"
    /\ pipe.pc = "idle"
    /\ Quiescent
    /\ Alive
    /\ m' = setattr(m, "length", DefaultLength)
    /\ pipe' = [IdlePipe EXCEPT !.pc = "transform_step", !.op = "predict",
                                !.X = TestSmiles]
    /\ UNCHANGED <<frames, last, knn>>
    /\ exp' = [exp EXCEPT !.pc = "predicting"]

\* y_pred = model.predict(test_data['smiles_0']) is called
LoopPredict ==
    /\ exp.pc = "predict"
    /\ PipelinePredict(TestSmiles)
    /\ exp' = [exp EXCEPT !.pc = "predicting"]

\* an inner loop that stops one repetition early
LoopAppendEndingEarly ==
    /\ exp.pc = "predicting"
    /\ PipelineReturn
    /\ LET record == [length |-> ExperimentLengths[exp.li],
                      train_size |-> TrainSizes[exp.si],
                      iteration |-> exp.i]
           appended == [exp EXCEPT !.results = Append(@, record)]
       IN exp' =
             IF pipe.result.kind = "error" THEN [exp EXCEPT !.pc = "failed"]
             ELSE IF exp.i + 2 < Repetitions
                  THEN [appended EXCEPT !.pc = "sample", !.i = exp.i + 1]
             ELSE IF exp.si < Len(TrainSizes)
                  THEN [appended EXCEPT !.pc = "sample", !.si = exp.si + 1,
                                        !.i = 0]
             ELSE IF exp.li < Len(ExperimentLengths)
                  THEN [appended EXCEPT !.pc = "set_params",
                                        !.li = exp.li + 1]
             ELSE [appended EXCEPT !.pc = "dataframe"]

\* model.predict has returned: results.append({...}), then the next i, the
\* next s or the next l; after the last l the loops end
LoopAppend ==
    /\ exp.pc = "predicting"
    /\ PipelineReturn
    /\ LET record == [length |-> ExperimentLengths[exp.li],
                      train_size |-> TrainSizes[exp.si],
                      iteration |-> exp.i]
           appended == [exp EXCEPT !.results = Append(@, record)]
       IN exp' =
             IF pipe.result.kind = "error" THEN [exp EXCEPT !.pc = "failed"]
             ELSE IF exp.i + 1 < Repetitions
                  THEN [appended EXCEPT !.pc = "sample", !.i = exp.i + 1]
             ELSE IF exp.si < Len(TrainSizes)
                  THEN [appended EXCEPT !.pc = "sample", !.si = exp.si + 1,
                                        !.i = 0]
             ELSE IF exp.li < Len(ExperimentLengths)
                  THEN [appended EXCEPT !.pc = "set_params",
                                        !.li = exp.li + 1]
             ELSE [appended EXCEPT !.pc = "dataframe"]

\* results = pd.DataFrame(results): one row per record, in list order
LoopEnd ==
    /\ exp.pc = "dataframe"
    /\ exp' = [exp EXCEPT !.pc = "done"]
    /\ UNCHANGED <<vars, pvars>>

\* a step of the pipeline inside model.fit or model.predict
LoopPipelineStep ==
    /\ exp.pc \in {"fitting", "predicting"}
    /\ \/ PipelineStepFit
       \/ PipelineStepFitReturned
       \/ PipelineStepTransform
       \/ PipelineStepLoadLength
       \/ PipelineStepFeaturize
       \/ PipelineStepTransformReturned
       \/ PipelineStepFinal
    /\ UNCHANGED exp

NextExperiment ==
    \/ ExperimentStart /\ UNCHANGED <<lvars, kvars>>
    \/ LoopSetParams /\ UNCHANGED <<lvars, kvars>>
    \/ LoopSample /\ UNCHANGED <<lvars, kvars>>
    \/ LoopFit /\ UNCHANGED <<lvars, kvars>>
    \/ LoopFitReturned /\ UNCHANGED <<lvars, kvars>>
    \/ LoopPredict /\ UNCHANGED <<lvars, kvars>>
    \/ LoopAppend /\ UNCHANGED <<lvars, kvars>>
    \/ LoopEnd /\ UNCHANGED <<lvars, kvars>>
    \/ LoopPipelineStep /\ UNCHANGED <<lvars, kvars>>

SpecExperiment == InitModel /\ [][NextExperiment]_allvars

(***************************************************************************)
(* The notebook of the linear models, from the quadratic data on, its      *)
(* statements in the order of the notebook: lr is fitted on X and then on  *)
(* the polynomial features X_poly of pf; pr is the pipeline of the two     *)
(* steps poly and lr, whose degree is set to 3 and then, in the exercise,  *)
(* to 1, ..., 9, each time followed by a fit and predictions.  X has one   *)
(* column; data holds it and y.  The weights a least-squares fit learns    *)
(* are kept as the problem they solve: the matrix, the targets and         *)
(* fit_intercept.                                                          *)
(***************************************************************************)
\* the one-column matrix of a list of numbers
Column(xs) == [r \in 1 .. Len(xs) |-> <<xs[r]>>]

RECURSIVE Power(_, _)
Power(x, k) == IF k = 0 THEN 1 ELSE x * Power(x, k - 1)

\* PolynomialFeatures(degree=..., include_bias=...), not fitted
PolynomialFeatures(degree, include_bias) ==
    [bound |-> TRUE, degree |-> degree, include_bias |-> include_bias,
     fitted |-> FALSE, n_features_in_ |-> 0, n_output_features_ |-> 0]

\* PolynomialFeatures.fit(X): the numbers of input and of output columns
PolynomialFeaturesFit(self, X) ==
    [self EXCEPT !.fitted = TRUE,
                 !.n_features_in_ = Len(X[1]),
                 !.n_output_features_ =
                     IF self.include_bias THEN self.degree + 1
                     ELSE self.degree]

\* PolynomialFeatures.transform(X) for one input column: the powers of x
\* from 0 (with include_bias) or 1 up to the degree
PolynomialFeaturesTransform(self, X) ==
    [r \in 1 .. Len(X) |->
        [c \in 1 .. self.n_output_features_ |->
            Power(X[r][1], IF self.include_bias THEN c - 1 ELSE c)]]

\* the weights of the least-squares problem (coef_ and intercept_)
lstsq(X, y, fit_intercept) == [X |-> X, y |-> y, fit_intercept |-> fit_intercept]
NoWeights == lstsq(<<>>, <<>>, FALSE)

\* LinearRegression(), not fitted
LinearModel ==
    [bound |-> TRUE, fit_intercept |-> TRUE, fitted |-> FALSE,
     weights |-> NoWeights]

\* a fit that keeps the weights the estimator has already learned
LinearModelFitWarm(self, X, y) ==
    IF self.fitted THEN self
    ELSE [self EXCEPT !.fitted = TRUE,
                      !.weights = lstsq(X, y, self.fit_intercept)]

\* LinearRegression.fit(X, y)
LinearModelFit(self, X, y) ==
    [self EXCEPT !.fitted = TRUE, !.weights = lstsq(X, y, self.fit_intercept)]

\* LinearRegression.predict(X): one value per row, of the weights and the
\* row
LinearModelPredict(self, X) ==
    [r \in 1 .. Len(X) |-> [weights |-> self.weights, row |-> X[r]]]

\* Pipeline([('poly', ...), ('lr', ...)])
PolynomialPipeline(poly, lrstep) ==
    [bound |-> TRUE, steps |-> [poly |-> poly, lr |-> lrstep]]

\* Pipeline.fit(X, y) of pr: fit and transform of poly, then fit of lr
PolynomialPipelineFit(self, X, y) ==
    LET poly == PolynomialFeaturesFit(self.steps.poly, X)
    IN [self EXCEPT !.steps.poly = poly,
                    !.steps.lr = LinearModelFit(@,
                                    PolynomialFeaturesTransform(poly, X), y)]

\* Pipeline.predict(X) of pr: transform of poly, then predict of lr
PolynomialPipelinePredict(self, X) ==
    LinearModelPredict(self.steps.lr,
                       PolynomialFeaturesTransform(self.steps.poly, X))

\* x_plot: the points the models are drawn at
x_plot == [r \in 1 .. MaxValue + 1 |-> <<r - 1>>]

\* the degrees of the exercise: range(1, 10)
Degrees == 1 .. 9

\* the rows of a matrix or list at the indices in rows, in their order
RECURSIVE Rows(_, _, _)
Rows(xs, rows, r) ==
    IF r > Len(xs) THEN <<>>
    ELSE (IF r \in rows THEN <<xs[r]>> ELSE <<>>) \o Rows(xs, rows, r + 1)

\* the notebook of the linear models at its cell 'Showing linear regression'
LinearNotebook == [Notebook("linear") EXCEPT !.cell = "lr"]

LinearCell(c) == nb.name = "linear" /\ nb.cell = c

X_train == Rows(Column(data.X), (1 .. Len(data.X)) \ nb.valid, 1)
y_train == Rows(data.y, (1 .. Len(data.y)) \ nb.valid, 1)
X_valid == Rows(Column(data.X), nb.valid, 1)

\* lr = LinearRegression().fit(X, y)
FitLinear ==
    /\ LinearCell("lr")
    /\ lr' = LinearModelFit(LinearModel, Column(data.X), data.y)
    /\ nb' = [nb EXCEPT !.cell = "pf"]
    /\ UNCHANGED <<pf, pr>>

\* pf = PolynomialFeatures(degree=3, include_bias=False)
MakePolynomial ==
    /\ LinearCell("pf")
    /\ pf' = PolynomialFeatures(3, FALSE)
    /\ nb' = [nb EXCEPT !.cell = "pf.fit"]
    /\ UNCHANGED <<lr, pr>>

\* pf.fit(X)
FitPolynomial ==
    /\ LinearCell("pf.fit")
    /\ pf' = PolynomialFeaturesFit(pf, Column(data.X))
    /\ nb' = [nb EXCEPT !.cell = "pf.transform"]
    /\ UNCHANGED <<lr, pr>>

\* X_poly = pf.transform(X)
TransformPolynomial ==
    /\ LinearCell("pf.transform")
    /\ nb' = [nb EXCEPT !.cell = "lr.fit",
                        !.X_poly = PolynomialFeaturesTransform(pf,
                                                               Column(data.X))]
    /\ UNCHANGED <<lr, pf, pr>>

\* lr = lr.fit(X_poly, y)
RefitLinear ==
    /\ LinearCell("lr.fit")
    /\ lr' = LinearModelFit(lr, nb.X_poly, data.y)
    /\ nb' = [nb EXCEPT !.cell = "lr.predict"]
    /\ UNCHANGED <<pf, pr>>

\* X_plot_poly = pf.transform(x_plot); y_plot = lr.predict(X_plot_poly)
PredictLinear ==
    /\ LinearCell("lr.predict")
    /\ nb' = [nb EXCEPT !.cell = "pr",
                        !.y_pred = LinearModelPredict(lr,
                                      PolynomialFeaturesTransform(pf, x_plot))]
    /\ UNCHANGED <<lr, pf, pr>>

\* pr = Pipeline([('poly', PolynomialFeatures(degree=10)),
\* ('lr', LinearRegression())])
MakePipeline ==
    /\ LinearCell("pr")
    /\ pr' = PolynomialPipeline(PolynomialFeatures(10, TRUE), LinearModel)
    /\ nb' = [nb EXCEPT !.cell = "pr.set_params"]
    /\ UNCHANGED <<lr, pf>>

\* pr.set_params(poly__degree=3)
PolynomialSetParams ==
    /\ LinearCell("pr.set_params")
    /\ pr' = [pr EXCEPT !.steps = NestedSetParams(@, "poly", "degree", 3)]
    /\ nb' = [nb EXCEPT !.cell = "pr.fit"]
    /\ UNCHANGED <<lr, pf>>

\* pr.fit(X, y)
PolynomialFit ==
    /\ LinearCell("pr.fit")
    /\ pr' = PolynomialPipelineFit(pr, Column(data.X), data.y)
    /\ nb' = [nb EXCEPT !.cell = "pr.predict"]
    /\ UNCHANGED <<lr, pf>>

\* y_plot = pr.predict(x_plot)
PolynomialPredict ==
    /\ LinearCell("pr.predict")
    /\ nb' = [nb EXCEPT !.cell = "split",
                        !.y_pred = PolynomialPipelinePredict(pr, x_plot)]
    /\ UNCHANGED <<lr, pf, pr>>

\* X_train, X_valid, y_train, y_valid = train_test_split(X, y,
\* test_size=0.25): a quarter of the samples, rounded up, are drawn for
\* validation (the rows keep their order here); with no sample left to
\* train on it raises ValueError and the exercise cannot run
TrainTestSplit ==
    /\ LinearCell("split")
    /\ \E valid \in SUBSET (1 .. Len(data.X)) :
          /\ Cardinality(valid) = (Len(data.X) + 3) \div 4
          /\ nb' = IF Cardinality(valid) = Len(data.X)
                   THEN [nb EXCEPT !.cell = "ValueError"]
                   ELSE [nb EXCEPT !.cell = "degree.set_params",
                                   !.valid = valid, !.n = 1]
    /\ UNCHANGED <<lr, pf, pr>>

\* for n in range(1, 10): pr.set_params(poly__degree=n)
DegreeSetParams ==
    /\ LinearCell("degree.set_params")
    /\ pr' = [pr EXCEPT !.steps = NestedSetParams(@, "poly", "degree", nb.n)]
    /\ nb' = [nb EXCEPT !.cell = "degree.fit"]
    /\ UNCHANGED <<lr, pf>>

\* pr.fit(X_train, y_train)
DegreeFit ==
    /\ LinearCell("degree.fit")
    /\ pr' = PolynomialPipelineFit(pr, X_train, y_train)
    /\ nb' = [nb EXCEPT !.cell = "degree.predict"]
    /\ UNCHANGED <<lr, pf>>

\* y_train_pred = pr.predict(X_train); y_valid_pred = pr.predict(X_valid);
\* the errors are appended to results; then the next n, or the end of the
\* loop and results = pd.DataFrame(results)
DegreePredict ==
    /\ LinearCell("degree.predict")
    /\ nb' = [nb EXCEPT
                !.y_pred = PolynomialPipelinePredict(pr, X_train)
                              \o PolynomialPipelinePredict(pr, X_valid),
                !.n = IF nb.n + 1 \in Degrees THEN nb.n + 1 ELSE nb.n,
                !.cell = IF nb.n + 1 \in Degrees THEN "degree.set_params"
                         ELSE "done"]
    /\ UNCHANGED <<lr, pf, pr>>

(***************************************************************************)
(* The notebook of kernel ridge regression: krr = KernelRidge(kernel=      *)
(* 'rbf') and the two sweeps, over gamma and over alpha, each setting the  *)
(* parameter, fitting on X, y and predicting at x_plot.  The value of a    *)
(* parameter is a power of ten and is kept by its exponent, a fraction.    *)
(* The dual coefficients a fit learns are kept as the                      *)
(* linear system they solve: the kernel matrix of X under gamma, plus      *)
(* alpha on its diagonal, and y.                                           *)
(***************************************************************************)
\* the number 10 ^ (num / den)
TenTo(num, den) == Fraction(num, den)

\* None as the value of a parameter
NoneParam == TenTo(0, 0)

Tenth == TenTo(0 - 1, 1)
One == TenTo(0, 1)
Ten == TenTo(1, 1)

\* the values of the two sweeps: [0.1, 1, 10]
SweepValues == <<Tenth, One, Ten>>

\* solve(K + alpha * I, y) with K = rbf_kernel(X, X, gamma)
solve(X, y, gamma, alpha) == [X |-> X, y |-> y, gamma |-> gamma, alpha |-> alpha]
NoCoef == solve(<<>>, <<>>, NoneParam, NoneParam)

\* KernelRidge(kernel='rbf'): alpha=1 and gamma=None are the defaults
KernelRidge ==
    [bound |-> TRUE, alpha |-> One, gamma |-> NoneParam, kernel |-> "rbf",
     fitted |-> FALSE, X_fit_ |-> <<>>, dual_coef_ |-> NoCoef]

\* KernelRidge.fit(X, y)
KernelRidgeFit(self, X, y) ==
    [self EXCEPT !.fitted = TRUE,
                 !.X_fit_ = X,
                 !.dual_coef_ = solve(X, y, self.gamma, self.alpha)]

\* KernelRidge.predict(X): for each row its kernel with X_fit_, under the
\* gamma the estimator has now, times dual_coef_
KernelRidgePredict(self, X) ==
    [r \in 1 .. Len(X) |->
        [row |-> X[r], X_fit_ |-> self.X_fit_, gamma |-> self.gamma,
         dual_coef_ |-> self.dual_coef_]]

\* the notebook of kernel ridge regression at the cell that makes krr
KernelNotebook == [Notebook("kernel_ridge") EXCEPT !.cell = "krr"]

KernelCell(c) == nb.name = "kernel_ridge" /\ nb.cell = c

\* krr = KernelRidge(kernel='rbf')
MakeKernelRidge ==
    /\ KernelCell("krr")
    /\ krr' = KernelRidge
    /\ nb' = [nb EXCEPT !.cell = "gamma.set_params", !.n = 1]
    /\ UNCHANGED gs

\* for ax, g in zip(axs, [0.1, 1, 10]): krr.set_params(gamma=g)
GammaSetParams ==
    /\ KernelCell("gamma.set_params")
    /\ krr' = setattr(krr, "gamma", SweepValues[nb.n])
    /\ nb' = [nb EXCEPT !.cell = "gamma.fit"]
    /\ UNCHANGED gs

\* krr.fit(X, y)
GammaFit ==
    /\ KernelCell("gamma.fit")
    /\ krr' = KernelRidgeFit(krr, Column(data.X), data.y)
    /\ nb' = [nb EXCEPT !.cell = "gamma.predict"]
    /\ UNCHANGED gs

\* y_plot = krr.predict(x_plot), the plot, and the next g or the next cell
GammaPredict ==
    /\ KernelCell("gamma.predict")
    /\ nb' = [nb EXCEPT
                !.y_pred = KernelRidgePredict(krr, x_plot),
                !.n = IF nb.n < Len(SweepValues) THEN nb.n + 1 ELSE nb.n,
                !.cell = IF nb.n < Len(SweepValues) THEN "gamma.set_params"
                         ELSE "alpha.gamma"]
    /\ UNCHANGED <<krr, gs>>

\* krr.set_params(gamma=0.1), before the loop over alpha
AlphaSetGamma ==
    /\ KernelCell("alpha.gamma")
    /\ krr' = setattr(krr, "gamma", Tenth)
    /\ nb' = [nb EXCEPT !.cell = "alpha.set_params", !.n = 1]
    /\ UNCHANGED gs

\* a set_params that makes the estimator anew with the one parameter given
AlphaSetParamsReconstructing ==
    /\ KernelCell("alpha.set_params")
    /\ krr' = setattr(KernelRidge, "alpha", SweepValues[nb.n])
    /\ nb' = [nb EXCEPT !.cell = "alpha.fit"]
    /\ UNCHANGED gs

\* for ax, a in zip(axs, [0.1, 1, 10]): krr.set_params(alpha=a)
AlphaSetParams ==
    /\ KernelCell("alpha.set_params")
    /\ krr' = setattr(krr, "alpha", SweepValues[nb.n])
    /\ nb' = [nb EXCEPT !.cell = "alpha.fit"]
    /\ UNCHANGED gs

\* krr.fit(X, y)
AlphaFit ==
    /\ KernelCell("alpha.fit")
    /\ krr' = KernelRidgeFit(krr, Column(data.X), data.y)
    /\ nb' = [nb EXCEPT !.cell = "alpha.predict"]
    /\ UNCHANGED gs

\* y_plot = krr.predict(x_plot), the plot, and the next a or the next cell
AlphaPredict ==
    /\ KernelCell("alpha.predict")
    /\ nb' = [nb EXCEPT
                !.y_pred = KernelRidgePredict(krr, x_plot),
                !.n = IF nb.n < Len(SweepValues) THEN nb.n + 1 ELSE nb.n,
                !.cell = IF nb.n < Len(SweepValues) THEN "alpha.set_params"
                         ELSE "gs"]
    /\ UNCHANGED <<krr, gs>>

(***************************************************************************)
(* The grid search of the notebook of kernel ridge regression:             *)
(* gs = GridSearchCV(estimator=krr, param_grid=..., cv=ShuffleSplit(...),  *)
(* scoring='neg_mean_absolute_error') and gs.fit(X, y), first over 32      *)
(* values of alpha, then over 16 values of alpha and 16 of gamma.  fit     *)
(* scores, for every point of the grid and every split, a clone of krr     *)
(* with the parameters of the point, fitted on the training part of the    *)
(* split; it keeps the mean score of each point in cv_results_, takes the  *)
(* first point of the best mean as best_params_ and fits a clone with      *)
(* these on all of X, y.  The score, the negated mean absolute error on    *)
(* the test part, is a whole number from -MaxScore to 0 here, fixed by the *)
(* data, the parameters and the split.                                     *)
(***************************************************************************)
MaxScore == 4

\* n_splits of ShuffleSplit
NumSplits == 10

\* np.logspace(start, stop, num): num exponents from start to stop, evenly
\* spaced
logspace(start, stop, num) ==
    [k \in 1 .. num |->
        TenTo(start * (num - 1) + (k - 1) * (stop - start), num - 1)]

\* param_grid of the two searches
AlphaGrid == [alpha |-> logspace(0 - 8, 0, 32)]
AlphaGammaGrid ==
    [alpha |-> logspace(0 - 8, 0, 16), gamma |-> logspace(0 - 4, 1, 16)]

\* ParameterGrid: the number of points of a grid, and its points in the
\* order of the product of the value lists, the names sorted and the last
\* name running fastest
GridSize(param_grid) ==
    IF "gamma" \in DOMAIN param_grid
    THEN Len(param_grid.alpha) * Len(param_grid.gamma)
    ELSE Len(param_grid.alpha)

GridPoint(param_grid, c) ==
    IF "gamma" \in DOMAIN param_grid
    THEN [alpha |-> param_grid.alpha[((c - 1) \div Len(param_grid.gamma)) + 1],
          gamma |-> param_grid.gamma[((c - 1) % Len(param_grid.gamma)) + 1]]
    ELSE [alpha |-> param_grid.alpha[c]]

\* clone(estimator): the parameters without what was learned
clone(estimator) ==
    [estimator EXCEPT !.fitted = FALSE, !.X_fit_ = <<>>, !.dual_coef_ = NoCoef]

\* estimator.set_params(params) for the parameters of a grid point
SetGridPoint(estimator, params) ==
    LET a == setattr(estimator, "alpha", params.alpha)
    IN IF "gamma" \in DOMAIN params
       THEN setattr(a, "gamma", params.gamma) ELSE a

\* the score of an estimator fitted on the training part of a split and
\* scored on its test part
NegMeanAbsoluteError(estimator, split) ==
    LET seed == SumSeq([r \in 1 .. Len(data.y) |->
                          data.y[r] * Power(MaxValue + 2, r)])
        h == HashCombine(
                HashCombine(
                   HashCombine(HashCombine(seed, 1000 + estimator.alpha.num),
                               1000 + estimator.gamma.num),
                   estimator.alpha.den + estimator.gamma.den),
                split)
    IN 0 - ((((h * h) % HashModulus) \div 16) % (MaxScore + 1))

\* a best index that is the first point of the lowest mean score
BestIndexLowest(cv_results_) ==
    CHOOSE b \in 1 .. Len(cv_results_) :
       \A c \in 1 .. Len(cv_results_) :
          \/ cv_results_[c].mean_test_score > cv_results_[b].mean_test_score
          \/ /\ cv_results_[c].mean_test_score
                   = cv_results_[b].mean_test_score
             /\ b <= c

\* best_index_: the first point of rank 1, the rank of the highest mean
\* score
BestIndex(cv_results_) ==
    CHOOSE b \in 1 .. Len(cv_results_) :
       \A c \in 1 .. Len(cv_results_) :
          \/ cv_results_[c].mean_test_score < cv_results_[b].mean_test_score
          \/ /\ cv_results_[c].mean_test_score
                   = cv_results_[b].mean_test_score
             /\ b <= c

\* GridSearchCV(estimator=krr, param_grid=param_grid, ...), not fitted; c
\* and split are the point and the split fit is at, scores the scores of
\* the point on the splits before; a mean score is kept as the sum of the
\* NumSplits scores
GridSearchCV(param_grid) ==
    [bound |-> TRUE, param_grid |-> param_grid, fitted |-> FALSE,
     c |-> 0, split |-> 0, scores |-> <<>>, cv_results_ |-> <<>>,
     best_index_ |-> 0, best_params_ |-> [alpha |-> NoneParam],
     best_estimator_ |-> Unbound]

\* the notebook of kernel ridge regression at the cell that makes gs, the
\* sweeps done
GridNotebook == [KernelNotebook EXCEPT !.cell = "gs", !.n = Len(SweepValues)]

\* gs = GridSearchCV(..., param_grid={'alpha': np.logspace(-8, 0, 32)}, ...)
MakeGridSearch ==
    /\ KernelCell("gs")
    /\ gs' = GridSearchCV(AlphaGrid)
    /\ nb' = [nb EXCEPT !.cell = "gs.fit"]
    /\ UNCHANGED krr

\* gs.fit(X, y) is entered
GridSearchFit ==
    /\ KernelCell("gs.fit")
    /\ gs' = [gs EXCEPT !.c = 1, !.split = 1, !.scores = <<>>,
                        !.cv_results_ = <<>>]
    /\ nb' = [nb EXCEPT !.cell = "gs.evaluate"]
    /\ UNCHANGED krr

\* one point is scored on one split; after the last split of a point its
\* entry of cv_results_ is made, after the last point the search is over
GridSearchEvaluate ==
    /\ KernelCell("gs.evaluate")
    /\ LET params == GridPoint(gs.param_grid, gs.c)
           estimator == SetGridPoint(clone(krr), params)
           scores == Append(gs.scores,
                            NegMeanAbsoluteError(estimator, gs.split))
           entry == [params |-> params, mean_test_score |-> SumSeq(scores)]
       IN IF gs.split < NumSplits
          THEN /\ gs' = [gs EXCEPT !.split = gs.split + 1, !.scores = scores]
               /\ nb' = nb
          ELSE /\ gs' = [gs EXCEPT !.c = gs.c + 1, !.split = 1,
                                   !.scores = <<>>,
                                   !.cv_results_ = Append(@, entry)]
               /\ nb' = IF gs.c < GridSize(gs.param_grid) THEN nb
                        ELSE [nb EXCEPT !.cell = "gs.refit"]
    /\ UNCHANGED krr

\* the best point is taken and a clone with its parameters is fitted on all
\* of X, y; gs.fit returns
GridSearchRefit ==
    /\ KernelCell("gs.refit")
    /\ LET best == BestIndex(gs.cv_results_)
           params == gs.cv_results_[best].params
       IN gs' = [gs EXCEPT
                   !.fitted = TRUE,
                   !.best_index_ = best,
                   !.best_params_ = params,
                   !.best_estimator_ =
                       KernelRidgeFit(SetGridPoint(clone(krr), params),
                                      Column(data.X), data.y)]
    /\ nb' = [nb EXCEPT !.cell = "gs.best_params_"]
    /\ UNCHANGED krr

\* gs.cv_results_ is plotted and gs.best_params_ is shown; after the first
\* search the second one is made:
\* gs = GridSearchCV(..., param_grid={'alpha': np.logspace(-8, 0, 16),
\* 'gamma': np.logspace(-4, 1, 16)}, ...)
MakeGridSearchAgain ==
    /\ KernelCell("gs.best_params_")
    /\ "gamma" \notin DOMAIN gs.param_grid
    /\ gs' = GridSearchCV(AlphaGammaGrid)
    /\ nb' = [nb EXCEPT !.cell = "gs.fit"]
    /\ UNCHANGED krr

\* the data of the searches: the samples at 0, 1, ..., any targets
GridData ==
    {d \in Datasets : /\ Len(d.X) = MaxPoints
                      /\ \A r \in 1 .. Len(d.X) : d.X[r] = r - 1}

\* the notebook before its grid searches: krr as the two sweeps leave it
InitGridSearch ==
    /\ m = MorganFingerprintTransformer(DefaultLength, DefaultRadius)
    /\ frames = [t \in Threads |-> IdleFrame]
    /\ last = NoLast
    /\ lr_2 = NoEstimator
    /\ cells = NoCells
    /\ InitPipeline
    /\ InitExperiment
    /\ lr = Unbound
    /\ pf = Unbound
    /\ pr = Unbound
    /\ gs = Unbound
    /\ data \in GridData
    /\ krr = KernelRidgeFit(
                setattr(setattr(KernelRidge, "gamma", Tenth), "alpha", Ten),
                Column(data.X), data.y)
    /\ nb = [GridNotebook EXCEPT !.y_pred = KernelRidgePredict(krr, x_plot)]

NextGridSearch ==
    \/ MakeGridSearch /\ UNCHANGED <<vars, lvars, pvars, evars, lr, pf, pr>>
    \/ GridSearchFit /\ UNCHANGED <<vars, lvars, pvars, evars, lr, pf, pr>>
    \/ GridSearchEvaluate
          /\ UNCHANGED <<vars, lvars, pvars, evars, lr, pf, pr>>
    \/ GridSearchRefit /\ UNCHANGED <<vars, lvars, pvars, evars, lr, pf, pr>>
    \/ MakeGridSearchAgain
          /\ UNCHANGED <<vars, lvars, pvars, evars, lr, pf, pr>>

SpecGridSearch == InitGridSearch /\ [][NextGridSearch]_allvars

(***************************************************************************)
(* The three notebooks, one of them running: the pipeline of the           *)
(* fingerprint notebook with the calls the notebook makes on it, the       *)
(* notebook of the linear models and the sweeps of the notebook of kernel  *)
(* ridge regression.                                                       *)
(***************************************************************************)
InitNotebook ==
    /\ m = MorganFingerprintTransformer(DefaultLength, DefaultRadius)
    /\ frames = [t \in Threads |-> IdleFrame]
    /\ last = NoLast
    /\ lr_2 = NoEstimator
    /\ cells = NoCells
    /\ InitPipeline
    /\ InitExperiment
    /\ lr = Unbound
    /\ pf = Unbound
    /\ pr = Unbound
    /\ krr = Unbound
    /\ gs = Unbound
    /\ \/ nb = Notebook("fingerprints") /\ data = NoData
       \/ nb = LinearNotebook /\ data \in Datasets
       \/ nb = KernelNotebook /\ data \in Datasets

Fingerprints == nb.name = "fingerprints"

\* what the notebook of the linear models leaves as it is
LinearFrame == UNCHANGED <<vars, lvars, pvars, evars, krr, gs>>

\* what the notebook of kernel ridge regression leaves as it is
KernelFrame == UNCHANGED <<vars, lvars, pvars, evars, lr, pf, pr>>

NextNotebook ==
    \/ \E length \in PipelineLengths :
          Fingerprints /\ PipelineSetParams(length)
             /\ UNCHANGED <<lvars, evars, kvars>>
    \/ \E X \in Batches :
          Fingerprints /\ PipelineFit(X) /\ UNCHANGED <<lvars, evars, kvars>>
    \/ \E X \in Batches :
          Fingerprints /\ PipelinePredict(X)
             /\ UNCHANGED <<lvars, evars, kvars>>
    \/ Fingerprints /\ PipelineStepFit /\ UNCHANGED <<lvars, evars, kvars>>
    \/ Fingerprints /\ PipelineStepFitReturned
          /\ UNCHANGED <<lvars, evars, kvars>>
    \/ Fingerprints /\ PipelineStepTransform
          /\ UNCHANGED <<lvars, evars, kvars>>
    \/ Fingerprints /\ PipelineStepLoadLength
          /\ UNCHANGED <<lvars, evars, kvars>>
    \/ Fingerprints /\ PipelineStepFeaturize
          /\ UNCHANGED <<lvars, evars, kvars>>
    \/ Fingerprints /\ PipelineStepTransformReturned
          /\ UNCHANGED <<lvars, evars, kvars>>
    \/ Fingerprints /\ PipelineStepFinal /\ UNCHANGED <<lvars, evars, kvars>>
    \/ Fingerprints /\ PipelineReturn /\ UNCHANGED <<lvars, evars, kvars>>
    \/ FitLinear /\ LinearFrame
    \/ MakePolynomial /\ LinearFrame
    \/ FitPolynomial /\ LinearFrame
    \/ TransformPolynomial /\ LinearFrame
    \/ RefitLinear /\ LinearFrame
    \/ PredictLinear /\ LinearFrame
    \/ MakePipeline /\ LinearFrame
    \/ PolynomialSetParams /\ LinearFrame
    \/ PolynomialFit /\ LinearFrame
    \/ PolynomialPredict /\ LinearFrame
    \/ TrainTestSplit /\ LinearFrame
    \/ DegreeSetParams /\ LinearFrame
    \/ DegreeFit /\ LinearFrame
    \/ DegreePredict /\ LinearFrame
    \/ MakeKernelRidge /\ KernelFrame
    \/ GammaSetParams /\ KernelFrame
    \/ GammaFit /\ KernelFrame
    \/ GammaPredict /\ KernelFrame
    \/ AlphaSetGamma /\ KernelFrame
    \/ AlphaSetParams /\ KernelFrame
    \/ AlphaFit /\ KernelFrame
    \/ AlphaPredict /\ KernelFrame

SpecNotebook == InitNotebook /\ [][NextNotebook]_allvars

(***************************************************************************)
(* Vocabulary of the properties.                                           *)
(***************************************************************************)
\* thread t has finished a transform call whose outcome has not yet been
\* handed to the caller
TransformDone(t) == frames[t].op = "transform" /\ frames[t].pc = "done"

\* X holds a string that is not a SMILES string
HasMalformed(X) == \E j \in 1 .. Len(X) : X[j] = Malformed

\* X holds an element no fingerprint can be computed of
HasUnusable(X) == \E j \in 1 .. Len(X) : X[j] \in {Malformed, NotAString}

\* position (from 1) of the first such string
FirstMalformed(X) == SetMin({j \in 1 .. Len(X) : X[j] = Malformed})

\* the fingerprint of a well-formed string as a row of `length' bits
FingerprintRow(smiles, length, radius) ==
    [j \in 1 .. length |->
        (j - 1) \in MorganBits([valid |-> TRUE, atoms |-> smiles],
                               radius, length)]

\* r is a matrix of `rows' rows and `cols' columns
IsMatrix(r, rows, cols) ==
    /\ r.kind = "array"
    /\ Len(r.arr) = rows
    /\ \A j \in 1 .. Len(r.arr) : Len(r.arr[j]) = cols

(***************************************************************************)
(* C1: every batch of N well-formed identifiers, transformed with a        *)
(* positive length L (and radius), yields a matrix of N rows and L         *)
(* columns.  As the claim states it, the empty batch included.             *)
(***************************************************************************)
C1_ShapeForEveryBatch ==
    \A t \in Threads :
       (/\ TransformDone(t)
        /\ ~HasMalformed(frames[t].X)
        /\ frames[t].len0 >= 1
        /\ frames[t].rad0 >= 1)
       => IsMatrix(frames[t].result, Len(frames[t].X), frames[t].len0)

\* C1 as amended: every non-empty batch of N well-formed identifiers,
\* transformed with a length L >= 1 and a radius >= 0, yields a matrix of N
\* rows and L columns; the empty batch yields no matrix but the ValueError
\* of np.vstack.
C1_ShapeForNonEmptyBatch ==
    \A t \in Threads :
       (/\ TransformDone(t)
        /\ ~HasMalformed(frames[t].X)
        /\ frames[t].len0 >= 1
        /\ frames[t].rad0 >= 0)
       => IF frames[t].X = <<>>
          THEN /\ frames[t].result.kind = "error"
               /\ frames[t].result.exc.type = "ValueError"
          ELSE IsMatrix(frames[t].result, Len(frames[t].X), frames[t].len0)

\* a batch of MaxBatch well-formed strings has come back as a matrix of
\* more than one column
C1_Witness ==
    \E t \in Threads :
       /\ TransformDone(t)
       /\ Len(frames[t].X) = MaxBatch
       /\ frames[t].len0 > 1
       /\ IsMatrix(frames[t].result, MaxBatch, frames[t].len0)

(***************************************************************************)
(* C2: row i of the matrix transform returns is the fingerprint of element *)
(* i of the batch, computed with the transformer's length and radius.      *)
(* (transform computes the elements one after the other in a list          *)
(* comprehension; the code has no worker pool.)                            *)
(***************************************************************************)
C2_RowsInInputOrder ==
    \A t \in Threads :
       (TransformDone(t) /\ frames[t].result.kind = "array")
       => /\ Len(frames[t].result.arr) = Len(frames[t].X)
          /\ \A j \in 1 .. Len(frames[t].X) :
                frames[t].result.arr[j] =
                   FingerprintRow(frames[t].X[j], m.length, m.radius)

\* a matrix has come back whose two rows differ: methane first, methanol
\* second
C2_Witness ==
    \E t \in Threads :
       /\ TransformDone(t)
       /\ frames[t].result.kind = "array"
       /\ frames[t].X = <<Methane, Methanol>>
       /\ frames[t].result.arr[1] # frames[t].result.arr[2]

(***************************************************************************)
(* C3: a batch with an undecodable element makes transform fail with a     *)
(* DecodeError that names the element and its position.  As the claim      *)
(* states it.                                                              *)
(***************************************************************************)
C3_DecodeErrorWithIndex ==
    \A t \in Threads :
       (/\ TransformDone(t)
        /\ HasMalformed(frames[t].X)
        /\ frames[t].len0 >= 1
        /\ frames[t].rad0 >= 1)
       => /\ frames[t].result.kind = "error"
          /\ frames[t].result.exc.type = "DecodeError"
          /\ frames[t].result.exc.index = FirstMalformed(frames[t].X) - 1
          /\ frames[t].result.exc.element =
                frames[t].X[FirstMalformed(frames[t].X)]

\* C3 as amended: with a length >= 1 and a radius >= 0, a batch with an
\* undecodable element makes transform fail with the library's
\* ArgumentError, raised when the first such element is reached and the
\* elements before it have been featurized; the error names neither the
\* element nor its position.
C3_ArgumentErrorWithoutIndex ==
    \A t \in Threads :
       (/\ TransformDone(t)
        /\ HasMalformed(frames[t].X)
        /\ frames[t].len0 >= 1
        /\ frames[t].rad0 >= 0)
       => /\ frames[t].result.kind = "error"
          /\ frames[t].result.exc.type = "ArgumentError"
          /\ frames[t].result.exc.index = NoIndex
          /\ frames[t].result.exc.element = NoElement
          /\ frames[t].i = FirstMalformed(frames[t].X)
          /\ Len(frames[t].fing) = FirstMalformed(frames[t].X) - 1

\* transform has failed on a malformed string that follows a well-formed one
C3_Witness ==
    \E t \in Threads :
       /\ TransformDone(t)
       /\ frames[t].X = <<Methane, Malformed>>
       /\ frames[t].len0 >= 1
       /\ frames[t].rad0 >= 1
       /\ frames[t].result.exc.type = "ArgumentError"
       /\ Len(frames[t].fing) = 1

(***************************************************************************)
(* C4: a batch with a malformed identifier never yields a matrix, neither  *)
(* to the caller nor inside the call: the call ends with an error, and     *)
(* what the caller keeps of it is that error.                              *)
(***************************************************************************)
C4_BadElementFailsWholeCall ==
    /\ \A t \in Threads :
          (frames[t].op = "transform" /\ HasMalformed(frames[t].X))
          => /\ frames[t].result.kind # "array"
             /\ frames[t].pc = "done" => frames[t].result.kind = "error"
    /\ (last.held /\ HasMalformed(last.X)) => last.result.kind = "error"

\* the caller holds the error of a call on a malformed string
C4_Witness ==
    /\ last.held
    /\ HasMalformed(last.X)
    /\ last.result.kind = "error"
    /\ \E t \in Threads :
          /\ TransformDone(t)
          /\ frames[t].X = <<Methanol, Malformed>>
          /\ frames[t].result.kind = "error"

(***************************************************************************)
(* C5: a non-positive length or radius is accepted by the constructor and  *)
(* the setters, and every transform call made with it raises               *)
(* ConfigurationError.  As the claim states it.                            *)
(***************************************************************************)
C5_ConfigurationErrorAtCall ==
    \A t \in Threads :
       (TransformDone(t) /\ (frames[t].len0 <= 0 \/ frames[t].rad0 <= 0))
       => /\ frames[t].result.kind = "error"
          /\ frames[t].result.exc.type = "ConfigurationError"

\* C5 as amended: a non-positive length or radius is accepted by the
\* constructor and the setters, and nothing ever raises ConfigurationError:
\* with a radius of 0 and a length >= 1 transform returns the matrix of a
\* non-empty well-formed batch, and with a negative length or radius every
\* transform of a batch whose first element is well-formed fails with the
\* library's OverflowError.
C5_NoConfigurationError ==
    \A t \in Threads :
       TransformDone(t) =>
          /\ frames[t].result.exc.type # "ConfigurationError"
          /\ (/\ frames[t].X # <<>>
              /\ ~HasMalformed(frames[t].X)
              /\ frames[t].len0 >= 1
              /\ frames[t].rad0 = 0)
             => IsMatrix(frames[t].result, Len(frames[t].X), frames[t].len0)
          /\ (/\ frames[t].X # <<>>
              /\ frames[t].X[1] # Malformed
              /\ (frames[t].len0 < 0 \/ frames[t].rad0 < 0))
             => /\ frames[t].result.kind = "error"
                /\ frames[t].result.exc.type = "OverflowError"

\* the transformer holds a radius of 0, set after a call that failed on a
\* negative length, and transform has returned a matrix with it
C5_Witness ==
    /\ m.radius = 0
    /\ last.held
    /\ last.length < 0
    /\ last.result.exc.type = "OverflowError"
    /\ \E t \in Threads :
          /\ TransformDone(t)
          /\ frames[t].rad0 = 0
          /\ frames[t].result.kind = "array"

(***************************************************************************)
(* C6: a transform of a batch of well-formed identifiers under a positive  *)
(* length and radius gives exactly the matrix that the call the caller     *)
(* kept gave for the same batch, length and radius, whatever was called    *)
(* or set in between.                                                      *)
(***************************************************************************)
C6_SameInputsSameMatrix ==
    \A t \in Threads :
       (/\ TransformDone(t)
        /\ last.held
        /\ ~HasMalformed(frames[t].X)
        /\ frames[t].X = last.X
        /\ frames[t].len0 = last.length
        /\ frames[t].rad0 = last.radius
        /\ frames[t].len0 >= 1
        /\ frames[t].rad0 >= 1)
       => frames[t].result = last.result

\* a second transform of [methanol] has returned a matrix, under the length
\* and radius the kept call on [methanol] ran under
C6_Witness ==
    \E t \in Threads :
       /\ TransformDone(t)
       /\ last.held
       /\ frames[t].X = <<Methanol>>
       /\ last.X = <<Methanol>>
       /\ frames[t].len0 = last.length
       /\ frames[t].rad0 = last.radius
       /\ frames[t].len0 = MaxLength
       /\ frames[t].rad0 = MaxRadius
       /\ frames[t].result.kind = "array"

(***************************************************************************)
(* C7: fit returns the transformer it was called on and leaves length and  *)
(* radius as they were when it was called, for every batch and every y.    *)
(***************************************************************************)
C7_FitReturnsSelfUnchanged ==
    \A t \in Threads :
       (frames[t].op = "fit" /\ frames[t].pc = "done")
       => /\ frames[t].ref = frames[t].self
          /\ frames[t].ref = m.id
          /\ m.length = frames[t].len0
          /\ m.radius = frames[t].rad0

\* fit has returned from a call on a batch of MaxBatch strings, one of them
\* malformed
C7_Witness ==
    \E t \in Threads :
       /\ frames[t].op = "fit"
       /\ frames[t].pc = "done"
       /\ Len(frames[t].X) = MaxBatch
       /\ HasMalformed(frames[t].X)
       /\ frames[t].ref = TransformerId

(***************************************************************************)
(* C8: a matrix transform has returned stays as it is: no assignment to    *)
(* length (or radius), no set_params, no fit and no step of a later        *)
(* transform changes it; what the caller holds changes only when the       *)
(* caller binds the outcome of a later call.                               *)
(***************************************************************************)
C8_ReturnedMatrixIsolated ==
    [][(\A t \in Threads :
           ~(frames[t].pc = "done" /\ frames'[t].pc = "idle"))
       => last' = last]_vars

\* the caller holds a matrix of one width and a later transform, after the
\* length was changed, has returned a matrix of another width
C8_Witness ==
    /\ last.held
    /\ last.result.kind = "array"
    /\ \E t \in Threads :
          /\ TransformDone(t)
          /\ frames[t].result.kind = "array"
          /\ frames[t].X = last.X
          /\ Len(frames[t].result.arr[1]) = m.length
          /\ Len(last.result.arr[1]) = last.length
          /\ last.length # m.length

(***************************************************************************)
(* C9: the matrix a transform call returns has the width that length had   *)
(* when the call started, and its rows are computed with the radius of     *)
(* that moment; the matrix of an earlier call keeps the width of its own   *)
(* moment.                                                                 *)
(***************************************************************************)
C9_SettingTakesEffectOnNextCall ==
    /\ \A t \in Threads :
          (TransformDone(t) /\ frames[t].result.kind = "array")
          => \A j \in 1 .. Len(frames[t].result.arr) :
                /\ Len(frames[t].result.arr[j]) = frames[t].len0
                /\ frames[t].result.arr[j] =
                      FingerprintRow(frames[t].X[j], frames[t].len0,
                                     frames[t].rad0)
    /\ (last.held /\ last.result.kind = "array")
       => \A j \in 1 .. Len(last.result.arr) :
             /\ Len(last.result.arr[j]) = last.length
             /\ last.result.arr[j] =
                   FingerprintRow(last.X[j], last.length, last.radius)

\* after a kept call with radius 0, the radius and the length were set
\* anew and the next call has returned rows that differ from the kept ones
C9_Witness ==
    /\ last.held
    /\ last.result.kind = "array"
    /\ last.radius = 0
    /\ \E t \in Threads :
          /\ TransformDone(t)
          /\ frames[t].result.kind = "array"
          /\ frames[t].X = last.X
          /\ frames[t].rad0 = MaxRadius
          /\ frames[t].len0 # last.length
          /\ frames[t].result.arr # last.result.arr

(***************************************************************************)
(* C10: no step of transform, from its entry to its last element, whether  *)
(* the call ends with a matrix or with an error, changes the transformer's *)
(* length or radius, what the caller holds, or another thread's call.      *)
(***************************************************************************)
C10_TransformHasNoSideEffect ==
    [][\A t \in Threads :
          (frames'[t].op = "transform" /\ frames'[t] # frames[t])
          => /\ m' = m
             /\ last' = last
             /\ \A u \in Threads \ {t} : frames'[u] = frames[u]]_vars

\* a transform has failed after an earlier one returned a matrix, and the
\* transformer has the configuration it had when the failed call started
C10_Witness ==
    /\ last.held
    /\ last.result.kind = "array"
    /\ \E t \in Threads :
          /\ TransformDone(t)
          /\ frames[t].result.kind = "error"
          /\ m.length = frames[t].len0
          /\ m.radius = frames[t].rad0
          /\ m.length <= 0

(***************************************************************************)
(* C11: a call of transform that has ended, in a matrix or in an error,    *)
(* has the outcome of the whole call run with the length and the radius    *)
(* the transformer had when the call started, also when another thread     *)
(* assigns to the length or the radius while the call is running.          *)
(***************************************************************************)
C11_SnapshotUnderMutation ==
    \A t \in Threads :
        (frames[t].op = "transform" /\ frames[t].pc \in {"done", "killed"})
        => frames[t].result \in
              transform(MorganFingerprintTransformer(frames[t].len0,
                                                     frames[t].rad0),
                        frames[t].X)

(***************************************************************************)
(* C12: when two threads call transform on the one transformer and the     *)
(* configuration is assigned to between calls only, every call, however    *)
(* its steps interleave with those of the others, collects for each        *)
(* element the row it computes alone and ends in an outcome of the whole   *)
(* call run alone with the configuration it started with.                  *)
(***************************************************************************)
C12_ConcurrentCallsAsAlone ==
    \A t \in Threads :
        frames[t].op = "transform"
        => /\ frames[t].pc \in {"done", "killed"}
              => frames[t].result \in
                    transform(MorganFingerprintTransformer(frames[t].len0,
                                                           frames[t].rad0),
                              frames[t].X)
           /\ \A j \in 1 .. Len(frames[t].fing) :
                 frames[t].fing[j] =
                    FingerprintRow(frames[t].X[j], frames[t].len0,
                                   frames[t].rad0)

\* two calls on different batches are running at the same moment, each has
\* collected the row of its first element
C12_Witness ==
    \E t \in Threads : \E u \in Threads \ {t} :
        /\ frames[t].op = "transform" /\ frames[u].op = "transform"
        /\ frames[t].pc = "featurize" /\ frames[u].pc = "load_length"
        /\ frames[t].i = 2 /\ frames[u].i = 2
        /\ Len(frames[t].fing) = 1 /\ Len(frames[u].fing) = 1
        /\ frames[t].X # frames[u].X
        /\ frames[t].fing # frames[u].fing

(***************************************************************************)
(* C13: fit returns the transformer, without an exception, for every       *)
(* batch it is given, also one that holds a malformed string or an element *)
(* that is no string; a transform of such a batch then ends in an error    *)
(* and never in a matrix, and with a usable length and radius the error    *)
(* is the ArgumentError of the unusable element.                           *)
(***************************************************************************)
C13_FitNeverValidates ==
    \A t \in Threads :
        (frames[t].op = "fit" /\ frames[t].pc # "idle")
        => /\ frames[t].pc = "done"
           /\ frames[t].ref = m.id
           /\ frames[t].result = NoResult
           /\ HasUnusable(frames[t].X)
              => /\ \A out \in transform(m, frames[t].X) : out.kind # "array"
                 /\ (m.length >= 1 /\ m.radius >= 0)
                    => transform(m, frames[t].X) = {Raised("ArgumentError")}

\* fit has returned the transformer for a batch of a malformed string and
\* a None, with a length and a radius a fingerprint can be computed with
C13_Witness ==
    \E t \in Threads :
        /\ frames[t].op = "fit"
        /\ frames[t].pc = "done"
        /\ frames[t].ref = TransformerId
        /\ frames[t].X = <<Malformed, NotAString>>
        /\ m.length >= 1
        /\ m.radius >= 0

(***************************************************************************)
(* C14: the transformer learns nothing.  A call of transform ends in an    *)
(* outcome of transform run on the length and radius it found and on its   *)
(* batch alone, whatever calls of fit came before it, none included; and   *)
(* after a call of fit, on any batch, transform has for the fitted batch  *)
(* and for the batch of the matrix the caller holds the outcomes it had    *)
(* before that call.                                                       *)
(***************************************************************************)
C14_NoLearnedState ==
    \A t \in Threads :
        /\ (frames[t].op = "transform" /\ frames[t].pc \in {"done", "killed"})
           => frames[t].result \in
                 transform(MorganFingerprintTransformer(frames[t].len0,
                                                        frames[t].rad0),
                           frames[t].X)
        /\ (frames[t].op = "fit" /\ frames[t].pc = "done")
           => \A X \in {frames[t].X, last.X} :
                 transform(m, X) =
                    transform(MorganFingerprintTransformer(frames[t].len0,
                                                           frames[t].rad0), X)

\* the caller holds the matrix of a batch, and fit has since returned from
\* a call on a longer batch, with the length and radius of the kept call:
\* a transform of the kept batch now has the kept matrix as its one outcome
C14_Witness ==
    \E t \in Threads :
        /\ frames[t].op = "fit"
        /\ frames[t].pc = "done"
        /\ last.held
        /\ last.result.kind = "array"
        /\ Len(frames[t].X) > Len(last.X)
        /\ last.length = m.length
        /\ last.radius = m.radius
        /\ transform(m, last.X) = {last.result}

C16_MethaneExample ==
    \A t \in Threads :
        (/\ TransformDone(t)
         /\ frames[t].X = <<Methane>>
         /\ frames[t].len0 = ExampleLength
         /\ frames[t].rad0 = ExampleRadius)
        => /\ IsMatrix(frames[t].result, 1, ExampleLength)
           /\ compute_morgan_fingerprints(Methane, ExampleLength,
                                          ExampleRadius)
                 = {Returned(frames[t].result.arr[1])}
           /\ \E j \in 1 .. ExampleLength : frames[t].result.arr[1][j]
           /\ (/\ last.held
               /\ last.X = <<Methane>>
               /\ last.length = ExampleLength
               /\ last.radius = ExampleRadius)
              => last.result = frames[t].result

\* the caller holds the matrix of m.transform(['C']) and the same call has
\* returned a second time
C16_Witness ==
    \E t \in Threads :
        /\ TransformDone(t)
        /\ frames[t].X = <<Methane>>
        /\ frames[t].len0 = ExampleLength
        /\ frames[t].rad0 = ExampleRadius
        /\ frames[t].result.kind = "array"
        /\ last.held
        /\ last.X = <<Methane>>
        /\ last.length = ExampleLength
        /\ last.result = frames[t].result

C20_PipelineSequencesSteps ==
    LET order == IF pipe.op = "fit"
                 THEN <<"fingerprint.fit", "fingerprint.transform", "knn.fit">>
                 ELSE <<"fingerprint.transform", "knn.predict">>
        called == Len(pipe.calls)
    IN pipe.pc # "idle"
       => /\ called <= Len(order)
          /\ pipe.calls = SubSeq(order, 1, called)
          /\ (pipe.pc = "done" /\ pipe.result.kind # "error")
             => called = Len(order)
          /\ (pipe.pc = "final_step" \/ called = Len(order))
             => /\ frames[MainThread].pc = "idle"
                /\ Len(pipe.Xt) = Len(pipe.X)
                /\ \A j \in 1 .. Len(pipe.Xt) : Len(pipe.Xt[j]) = m.length
          /\ (pipe.op = "fit" /\ called = Len(order))
             => knn.fitted /\ knn.X = pipe.Xt

\* Pipeline.predict has returned predictions for a batch of MaxBatch
\* molecules, from an estimator fitted after the length of the fingerprint
\* step was set to another value than that of MorganFingerprintTransformer()
C20_Witness ==
    /\ pipe.pc = "done"
    /\ pipe.op = "predict"
    /\ pipe.result.kind = "predictions"
    /\ Len(pipe.X) = MaxBatch
    /\ m.length # DefaultLength
    /\ knn.X # pipe.Xt

(***************************************************************************)
(* C19: when the experiment has run, the records of results hold exactly   *)
(* two different values of length.                                         *)
(***************************************************************************)
C19_TwoFingerprintLengths ==
    exp.pc = "done"
    => Cardinality({exp.results[k].length : k \in DOMAIN exp.results}) = 2

(***************************************************************************)
(* C21: set_params of a pipeline with the name step__param changes that    *)
(* parameter of that step and nothing else.  A step that leaves the        *)
(* pipeline model idle, which is model.set_params(fingerprint__length=l),  *)
(* gives the fingerprint step one of the lengths the notebook passes,      *)
(* leaves its radius and leaves the step knn, parameters and training data,*)
(* as it was; pr.set_params(poly__degree=n) gives the step poly the degree *)
(* n, leaves its other parameters and leaves the step lr as it was.        *)
(***************************************************************************)
C21_NestedSetParamsFrame ==
    [][/\ (Fingerprints /\ pipe.pc = "idle" /\ pipe'.pc = "idle")
           => /\ \E l \in PipelineLengths : m' = [m EXCEPT !.length = l]
              /\ knn' = knn
       /\ LinearCell("pr.set_params")
           => /\ pr'.steps.poly = [pr.steps.poly EXCEPT !.degree = 3]
              /\ pr'.steps.lr = pr.steps.lr
       /\ LinearCell("degree.set_params")
           => /\ pr'.steps.poly = [pr.steps.poly EXCEPT !.degree = nb.n]
              /\ pr'.steps.lr = pr.steps.lr]_allvars

\* the length of the fingerprint step has been set to 32 after the pipeline
\* was fitted at another length, and knn still has its training data
C21_Witness ==
    /\ Fingerprints
    /\ pipe.pc = "idle"
    /\ m.length = 32
    /\ m.radius = DefaultRadius
    /\ knn.fitted
    /\ knn.n_neighbors = Neighbors
    /\ knn.X # <<>>
    /\ Len(knn.X[1]) # 32

(***************************************************************************)
(* C22: in the experiment the fingerprint step changes only in the         *)
(* statement model.set_params(fingerprint__length=l), never between a      *)
(* model.fit and the model.predict after it; and when a record is          *)
(* appended, model.predict has returned predictions, and the length of the *)
(* record is the length of the fingerprint step, the width of the matrix   *)
(* knn was fitted on and the width of the matrix it predicted from.        *)
(***************************************************************************)
C22_LengthFixedWithinPair ==
    [][/\ m' # m => exp.pc = "set_params"
       /\ Len(exp'.results) > Len(exp.results)
           => LET record == exp'.results[Len(exp'.results)]
              IN /\ pipe.result.kind = "predictions"
                 /\ record.length = m.length
                 /\ Len(knn.X[1]) = record.length
                 /\ Len(pipe.Xt[1]) = record.length]_allvars

\* the predictions of a repetition at the second length are there: the
\* length was set after fits at the first length
C22_Witness ==
    /\ exp.pc = "predicting"
    /\ exp.li = 2
    /\ pipe.pc = "done"
    /\ pipe.result.kind = "predictions"
    /\ exp.results # <<>>
    /\ exp.results[1].length = ExperimentLengths[1]
    /\ m.length = ExperimentLengths[2]
    /\ Len(knn.X[1]) = ExperimentLengths[2]
    /\ Len(pipe.Xt[1]) = ExperimentLengths[2]

(***************************************************************************)
(* C23: what an estimator has learned after a fit is what a new estimator  *)
(* with the same parameters learns from the data of that fit alone,        *)
(* whatever it was fitted on before.  After lr.fit(X_poly, y), lr is a new *)
(* LinearRegression fitted on X_poly, y; after pr.fit in the loop over the *)
(* degrees, pr is a new pipeline of degree n fitted on X_train, y_train;   *)
(* after krr.fit in a sweep, krr is a new KernelRidge with the gamma and   *)
(* alpha of that turn fitted on X, y; and after model.fit(X, y), knn holds *)
(* the fingerprints of X at the present length and the targets of X and    *)
(* nothing else.                                                           *)
(***************************************************************************)
C23_RefitReplacesLearnedState ==
    /\ LinearCell("lr.predict")
        => lr = LinearModelFit(LinearModel, nb.X_poly, data.y)
    /\ LinearCell("degree.predict")
        => pr = PolynomialPipelineFit(
                   PolynomialPipeline(PolynomialFeatures(nb.n, TRUE),
                                      LinearModel),
                   X_train, y_train)
    /\ KernelCell("gamma.predict")
        => krr = KernelRidgeFit(setattr(KernelRidge, "gamma",
                                        SweepValues[nb.n]),
                                Column(data.X), data.y)
    /\ KernelCell("alpha.predict")
        => krr = KernelRidgeFit(
                    setattr(setattr(KernelRidge, "gamma", Tenth),
                            "alpha", SweepValues[nb.n]),
                    Column(data.X), data.y)
    /\ (Fingerprints /\ pipe.pc = "done" /\ pipe.op = "fit"
           /\ pipe.result.kind = "model")
        => /\ Returned(knn.X) \in transform(m, pipe.X)
           /\ knn = KNeighborsFit(KNeighborsRegressor(Neighbors), knn.X,
                                  Targets(pipe.X).values)

\* lr has been fitted a second time, on the three columns of X_poly, after
\* its fit on the one column of X
C23_Witness ==
    /\ LinearCell("lr.predict")
    /\ lr.fitted
    /\ nb.X_poly # <<>>
    /\ lr.weights.X = nb.X_poly
    /\ Len(lr.weights.X[1]) = 3
    /\ lr.weights.X # Column(data.X)

(***************************************************************************)
(* C24: transform of the empty batch ends without an error, in a matrix    *)
(* of no rows.  As the claim states it.                                    *)
(***************************************************************************)
C24_EmptyBatchGivesEmptyMatrix ==
    \A t \in Threads :
       (TransformDone(t) /\ frames[t].X = <<>>)
       => IsMatrix(frames[t].result, 0, frames[t].len0)

\* C24 as amended: transform of the empty batch returns no matrix; it ends
\* in the ValueError of np.vstack, whatever the length and the radius are,
\* valid or not, since no element is there to be featurized with them.
C24_EmptyBatchRaisesValueError ==
    \A t \in Threads :
       (TransformDone(t) /\ frames[t].X = <<>>)
       => /\ frames[t].result = Raised("ValueError")
          /\ frames[t].fing = <<>>
          /\ Raised("ValueError") \in transform(m, <<>>)

\* transform of the empty batch has ended, under a usable length and radius
C24_Witness ==
    /\ TransformDone(MainThread)
    /\ frames[MainThread].X = <<>>
    /\ frames[MainThread].result.kind = "error"
    /\ frames[MainThread].result.exc.type = "ValueError"
    /\ m.length >= 1
    /\ m.radius >= 0

(***************************************************************************)
(* C25: in a matrix transform returns, every entry is a bit, every row has *)
(* the columns 0 .. length - 1 and no other, and the bit in column j of    *)
(* row i is set only if a neighbourhood of molecule i, of a radius of at   *)
(* most the configured radius, has a hash that falls on j modulo length.   *)
(***************************************************************************)
C25_BitsComeFromNeighbourhoods ==
    \A t \in Threads :
       (TransformDone(t) /\ frames[t].result.kind = "array")
       => LET f == frames[t]
              arr == f.result.arr
          IN \A i \in 1 .. Len(arr) :
                /\ DOMAIN arr[i] = 1 .. f.len0
                /\ \A j \in 1 .. Len(arr[i]) :
                      /\ arr[i][j] \in BOOLEAN
                      /\ arr[i][j]
                          => \E r \in 0 .. f.rad0 :
                                \E h \in MorganHashes(MolFromSmiles(f.X[i]), r) :
                                   h % f.len0 = j - 1

\* a matrix of two rows and two columns has been returned, with a bit set
\* and a bit not set in its second row
C25_Witness ==
    /\ TransformDone(MainThread)
    /\ frames[MainThread].result.kind = "array"
    /\ frames[MainThread].len0 = 2
    /\ Len(frames[MainThread].result.arr) = 2
    /\ \E j, k \in 1 .. 2 :
          /\ frames[MainThread].result.arr[2][j]
          /\ ~frames[MainThread].result.arr[2][k]

(***************************************************************************)
(* C26: the experiment comes to its end, and at its end results holds 336  *)
(* records, the k-th being the k-th triple of length, training-set size    *)
(* and repetition in the order of the three loops: every triple of         *)
(* {32, 64, 128} x {3, ..., 3000} x {0, ..., 15} once, none twice.  That   *)
(* it comes to its end is stated by a measure of the way made: every step  *)
(* of the cell takes it further, it has an upper limit, and as long as     *)
(* the end is not reached no exception has left the loops and a next step  *)
(* can be taken.                                                           *)
(***************************************************************************)
\* steps of one call of transform, of one call of the pipeline and of one
\* repetition, at most
TransformSpan == 2 * MaxBatch + 1
PipelineSpan == TransformSpan + 5
RepetitionSpan == 2 * PipelineSpan + 4

\* the way made inside the call of transform, of the pipeline, and inside
\* the repetition
TransformPosition ==
    LET f == frames[MainThread]
    IN IF f.pc = "done" THEN TransformSpan - 1
       ELSE 2 * (f.i - 1) + (IF f.pc = "featurize" THEN 1 ELSE 0)

PipelinePosition ==
    CASE pipe.pc = "fit_step" -> 0
      [] pipe.pc = "fit_returned" -> 1
      [] pipe.pc = "transform_step" -> 2
      [] pipe.pc = "transforming" -> 3 + TransformPosition
      [] pipe.pc = "final_step" -> 3 + TransformSpan
      [] pipe.pc = "done" -> 4 + TransformSpan
      [] OTHER -> 0

ExperimentPosition ==
    CASE exp.pc = "not run" -> 0
      [] exp.pc = "set_params" -> 1 + Len(exp.results) * RepetitionSpan
      [] exp.pc = "sample" -> 2 + Len(exp.results) * RepetitionSpan
      [] exp.pc = "fit" -> 3 + Len(exp.results) * RepetitionSpan
      [] exp.pc = "fitting" ->
            4 + Len(exp.results) * RepetitionSpan + PipelinePosition
      [] exp.pc = "predict" ->
            4 + Len(exp.results) * RepetitionSpan + PipelineSpan
      [] exp.pc = "predicting" ->
            5 + Len(exp.results) * RepetitionSpan + PipelineSpan
              + PipelinePosition
      [] exp.pc = "dataframe" -> 1 + Len(exp.results) * RepetitionSpan
      [] exp.pc = "done" -> 2 + Len(exp.results) * RepetitionSpan
      [] OTHER -> 0

\* a step of the call of the pipeline that is running can be taken: the
\* guards of the steps of the pipeline, by the place the call is at
PipelineCanStep ==
    /\ Alive
    /\ CASE pipe.pc \in {"fit_step", "transform_step"} ->
               frames[MainThread].pc = "idle"
         [] pipe.pc = "fit_returned" -> frames[MainThread].pc = "done"
         [] pipe.pc = "transforming" ->
               \/ frames[MainThread].pc \in {"load_length", "done"}
               \/ /\ frames[MainThread].pc = "featurize"
                  /\ compute_morgan_fingerprints(
                        frames[MainThread].X[frames[MainThread].i],
                        frames[MainThread].l, SelfRadius) # {}
         [] pipe.pc \in {"final_step", "done"} -> TRUE
         [] OTHER -> FALSE

\* a statement of the cell can run: the guards of the statements of the
\* experiment, by the place the cell is at
ExperimentCanStep ==
    CASE exp.pc = "not run" -> pipe.pc = "idle"
      [] exp.pc \in {"set_params", "fit", "predict"} ->
            pipe.pc = "idle" /\ Quiescent /\ Alive
      [] exp.pc = "sample" -> TrainSubsets # {}
      [] exp.pc \in {"fitting", "predicting"} -> PipelineCanStep
      [] exp.pc = "dataframe" -> TRUE
      [] OTHER -> FALSE

ExperimentComplete ==
    /\ Len(exp.results) = 336
    /\ Len(exp.results)
          = Len(ExperimentLengths) * Len(TrainSizes) * Repetitions
    /\ \A k \in 1 .. Len(exp.results) :
          exp.results[k] =
             [length |->
                 ExperimentLengths[
                    ((k - 1) \div (Len(TrainSizes) * Repetitions)) + 1],
              train_size |->
                 TrainSizes[(((k - 1) \div Repetitions) % Len(TrainSizes)) + 1],
              iteration |-> (k - 1) % Repetitions]

C26_ExperimentCompletes ==
    /\ [](exp.pc # "failed")
    /\ [](exp.pc = "done" => ExperimentComplete)
    /\ [](exp.pc # "done" => ExperimentCanStep)
    /\ [](ExperimentPosition <= 2 + 336 * RepetitionSpan)
    /\ [][ExperimentPosition' > ExperimentPosition]_allvars

\* the experiment has ended with its last record, that of length 128, size
\* 3000 and repetition 15
C26_Witness ==
    /\ exp.pc = "done"
    /\ Len(exp.results) = 336
    /\ exp.results[336] = [length |-> 128, train_size |-> 3000,
                           iteration |-> 15]
    /\ exp.results[1] = [length |-> 32, train_size |-> 3, iteration |-> 0]

(***************************************************************************)
(* C27: in a call of model.fit on a batch with a malformed identifier, no  *)
(* step changes the final estimator knn, fitted before or not, and its fit *)
(* is not among the calls made; the call ends in the ArgumentError of the  *)
(* transform, which is what its caller gets.                               *)
(***************************************************************************)
C27_FailedFitLeavesEstimator ==
    /\ []((pipe.op = "fit" /\ HasMalformed(pipe.X))
          => /\ \A k \in 1 .. Len(pipe.calls) : pipe.calls[k] # "knn.fit"
             /\ pipe.pc # "final_step"
             /\ pipe.pc = "done"
                 => pipe.result = Failed(Exception("ArgumentError")))
    /\ [][(pipe.op = "fit" /\ HasMalformed(pipe.X)) => knn' = knn]_allvars

\* a fit on a batch with a malformed identifier has ended in the error,
\* and knn has the training data of an earlier fit
C27_Witness ==
    /\ pipe.pc = "done"
    /\ pipe.op = "fit"
    /\ HasMalformed(pipe.X)
    /\ pipe.result.kind = "error"
    /\ pipe.result.exc.type = "ArgumentError"
    /\ pipe.calls = <<"fingerprint.fit", "fingerprint.transform">>
    /\ knn.fitted
    /\ knn.X # <<>>


\* C28: once gs.fit has returned, cv_results_ has exactly one entry for
\* every point of the grid and no other, 32 for the grid of alpha and 256
\* for the grid of alpha and gamma, the mean score of an entry is made of
\* the scores of its point on every one of the 10 splits, and best_params_
\* is a point of the grid whose mean score no other point exceeds
C28_GridSearchEvaluatesWholeGrid ==
    (gs.bound /\ gs.fitted) =>
        LET N == IF "gamma" \in DOMAIN gs.param_grid THEN 256 ELSE 32
            cv == gs.cv_results_
        IN /\ Len(cv) = N
           /\ \A c \in 1 .. N :
                 /\ cv[c].params = GridPoint(gs.param_grid, c)
                 /\ cv[c].mean_test_score
                      = SumSeq([k \in 1 .. 10 |->
                                  NegMeanAbsoluteError(
                                     SetGridPoint(clone(krr), cv[c].params),
                                     k)])
           /\ \A c, d \in 1 .. N : cv[c].params = cv[d].params => c = d
           /\ \E b \in 1 .. N :
                 /\ gs.best_params_ = cv[b].params
                 /\ \A c \in 1 .. N :
                       cv[c].mean_test_score <= cv[b].mean_test_score

\* the search over alpha and gamma has returned, two points share the best
\* mean score and another point has a lower one
C28_Witness ==
    /\ gs.bound
    /\ gs.fitted
    /\ "gamma" \in DOMAIN gs.param_grid
    /\ Len(gs.cv_results_) = 256
    /\ \E c \in 1 .. 256 :
          /\ c # gs.best_index_
          /\ gs.cv_results_[c].mean_test_score
               = gs.cv_results_[gs.best_index_].mean_test_score
    /\ \E c \in 1 .. 256 :
          gs.cv_results_[c].mean_test_score
             < gs.cv_results_[gs.best_index_].mean_test_score


\* C29: in the sweeps of kernel ridge regression a set_params changes the
\* parameter it names and nothing else of krr; every fit of the sweep over
\* gamma solves with the alpha krr was made with and the gamma of its turn,
\* and every fit of the sweep over alpha solves with gamma = 0.1, the value
\* set before the loop, and the alpha of its turn
C29_SetParamsChangesNamedParameter ==
    /\ [](KernelCell("gamma.fit") \/ KernelCell("gamma.predict")
            => krr.alpha = KernelRidge.alpha /\ krr.gamma = SweepValues[nb.n])
    /\ [](KernelCell("gamma.predict")
            => /\ krr.dual_coef_.alpha = KernelRidge.alpha
               /\ krr.dual_coef_.gamma = SweepValues[nb.n])
    /\ [](KernelCell("alpha.fit") \/ KernelCell("alpha.predict")
            => krr.gamma = Tenth /\ krr.alpha = SweepValues[nb.n])
    /\ [](KernelCell("alpha.predict")
            => /\ krr.dual_coef_.gamma = Tenth
               /\ krr.dual_coef_.alpha = SweepValues[nb.n])
    /\ [][/\ KernelCell("gamma.set_params") \/ KernelCell("alpha.gamma")
              => krr' = [krr EXCEPT !.gamma = krr'.gamma]
          /\ KernelCell("alpha.set_params")
              => krr' = [krr EXCEPT !.alpha = krr'.alpha]]_allvars

\* the first fit of the sweep over alpha is done, with gamma = 0.1, and the
\* last plot is still the one of the sweep over gamma, made with gamma = 10
C29_Witness ==
    /\ KernelCell("alpha.predict")
    /\ nb.n = 1
    /\ krr.fitted
    /\ krr.dual_coef_ = solve(Column(data.X), data.y, Tenth, Tenth)
    /\ nb.y_pred # <<>>
    /\ nb.y_pred[1].gamma = Ten
    /\ nb.y_pred[1].dual_coef_.alpha = KernelRidge.alpha

\* C30: the fingerprint step of the pipeline starts with length 256 and
\* radius 4, nothing but model.set_params(fingerprint__length=...) changes
\* them, and as long as the length is 256 every matrix the step hands to
\* the final estimator, and every training matrix that keeps, has 256
\* columns
C30_DefaultsUntilSetParams ==
    /\ m.length = 256 /\ m.radius = 4
    /\ [][m' # m => /\ \E length \in PipelineLengths :
                         PipelineSetParams(length)
                    /\ m'.radius = 4]_allvars
    /\ [](pipe.pc = "final_step" /\ m.length = 256
            => \A r \in 1 .. Len(pipe.Xt) : Len(pipe.Xt[r]) = 256)
    /\ [][pipe.pc = "final_step" /\ pipe.op = "fit" /\ m.length = 256
            /\ knn' # knn
          => \A r \in 1 .. Len(knn'.X) : Len(knn'.X[r]) = 256]_allvars

\* the pipeline, its fingerprint step as made, was fitted on rows of 256
\* columns and now hands rows of 256 columns to predict of the final
\* estimator
C30_Witness ==
    /\ m = MorganFingerprintTransformer(256, 4)
    /\ pipe.pc = "final_step"
    /\ pipe.op = "predict"
    /\ Len(pipe.Xt) > 0
    /\ Len(pipe.Xt[1]) = 256
    /\ knn.fitted
    /\ Len(knn.X) > 0
    /\ Len(knn.X[1]) = 256

====
